---- MODULE Spec2Model ----
(***************************************************************************)
(* cc-slash-agents (ccsa): discovery of agent files, command-name          *)
(* resolution, command generation and the sync reconciler.                 *)
(*                                                                         *)
(* Text is modelled as sequences of one-character strings, so that name    *)
(* derivation and suffixing operate on characters.  The file systems of    *)
(* the two scopes are functions from paths to file contents.  Exceptions   *)
(* are modelled as values (records with kind "throw") so that try/catch    *)
(* is explicit.                                                            *)
(***************************************************************************)
EXTENDS Integers, Sequences, FiniteSets, TLC

\* ------------------------------------------------------------------ bounds
\* Agent file slots per agents root.
MaxAgentFiles == 2
\* Longest agent list handed to the name resolver in isolation.
MaxBatch == 4
\* File system calls of one run that the environment lets fail.
MaxIoFailures == 2
\* Longest header value of a file given by its text.
MaxValueLen == 3
\* Longest logical name handed to the name derivation in isolation.
MaxNameLen == 3

\* ------------------------------------------------------------- characters
Scopes == {"project", "user"}
\* Variant that lets any scope argument through.
ScopeArgsUnchecked == {"project", "user", "both", "bogus"}

\* ['project', 'user', 'both']
ScopeArgs == {"project", "user", "both"}

Digit == [d \in 0..9 |-> <<"0","1","2","3","4","5","6","7","8","9">>[d + 1]]

RECURSIVE NumStr(_)
\* Decimal rendering of a natural number, as `${counter}` renders it.
NumStr(k) == IF k < 10 THEN <<Digit[k]>> ELSE NumStr(k \div 10) \o <<Digit[k % 10]>>

LowerChar(c) == CASE c = "X" -> "x" [] c = "Y" -> "y" [] OTHER -> c
IsAlnum(c) == c \in {"x", "y", "X", "Y", "0", "1", "2", "3", "4", "5", "6", "7", "8", "9"}

RECURSIVE CollapseHyphens(_)
CollapseHyphens(s) ==
  IF Len(s) < 2 THEN s
  ELSE IF s[1] = "-" /\ s[2] = "-" THEN CollapseHyphens(Tail(s))
  ELSE <<s[1]>> \o CollapseHyphens(Tail(s))

RECURSIVE CollapsePairs(_)
\* One left-to-right pass that replaces each pair of hyphens by one hyphen.
CollapsePairs(s) ==
  IF Len(s) < 2 THEN s
  ELSE IF s[1] = "-" /\ s[2] = "-" THEN <<"-">> \o CollapsePairs(Tail(Tail(s)))
  ELSE <<s[1]>> \o CollapsePairs(Tail(s))

\* Variant that collapses hyphens pair by pair in a single pass.
generateCommandNamePairwise(agentName) ==
  CollapsePairs([k \in 1..Len(agentName) |->
     IF IsAlnum(agentName[k]) THEN LowerChar(agentName[k]) ELSE "-"])

\* 4.4 deriveName: lowercase, every non-alphanumeric character becomes a
\* hyphen, runs of hyphens collapse to one.
generateCommandName(agentName) ==
  CollapseHyphens([k \in 1..Len(agentName) |->
     IF IsAlnum(agentName[k]) THEN LowerChar(agentName[k]) ELSE "-"])

\* ------------------------------------------------------- conflict resolver
Suffixed(base, k) == base \o <<"-">> \o NumStr(k)

RECURSIVE RetrySuffix(_, _, _)
\* The retry loop: base-2, base-3, ... until the candidate is unclaimed.
RetrySuffix(base, claimed, k) ==
  IF Suffixed(base, k) \notin claimed THEN Suffixed(base, k)
  ELSE RetrySuffix(base, claimed, k + 1)

PickName(base, claimed) ==
  IF base \notin claimed THEN base ELSE RetrySuffix(base, claimed, 2)

MapSet(m, key, val) == [x \in DOMAIN m \cup {key} |-> IF x = key THEN val ELSE m[x]]

EmptyMap == [x \in {} |-> <<>>]

RECURSIVE ResolveFrom(_, _, _, _)
ResolveFrom(names, k, m, claimed) ==
  IF k > Len(names) THEN m
  ELSE LET final == PickName(generateCommandName(names[k]), claimed)
       IN ResolveFrom(names, k + 1, MapSet(m, names[k], final), claimed \cup {final})

\* 4.4 resolveConflicts over the logical names of the agents, in order.
resolveNamingConflicts(names) == ResolveFrom(names, 1, EmptyMap, {})

MapValues(m) == {m[x] : x \in DOMAIN m}

Range(seq) == {seq[k] : k \in 1..Len(seq)}

\* --------------------------------------------------------------- variables
VARIABLES
  agentDirs,   \* scopes whose agents root directory exists
  globFail,    \* scopes whose agents root cannot be enumerated (glob rejects)
  agentFiles,  \* agent path -> file content
  cmdRoot,     \* scope -> "absent" | "dir" | "file": what sits at the commands root
  cmdFiles,    \* command path -> file content, for the files that exist
  pc,          \* position of the running operation
  opts,        \* options of the running operation
  agents,      \* result of discoverAgents
  nameMap,     \* result of resolveNamingConflicts
  toCreate, toUpdate, toDelete,
  idx,         \* position in the batch loop being executed
  generated, skipped, errors,
  created, updated, deleted,
  fs0,         \* command files when the operation started
  writes,      \* <<logical name, destination>> of every file written by the run
  removed,     \* paths unlinked by the run
  outcome,     \* how the operation ended, or what the last call returned
  ret,         \* the operation or function last called, and the value it returned
  ioLog,       \* kinds of file system calls the operation has made so far
  loggerVerbose \* Logger.verbose: whether Logger.debug prints

vars == <<agentDirs, globFail, agentFiles, cmdRoot, cmdFiles, pc, opts, agents,
          nameMap, toCreate, toUpdate, toDelete, idx, generated, skipped, errors,
          created, updated, deleted, fs0, writes, removed, outcome, ret, ioLog,
          loggerVerbose>>

\* What the bodies of the operations never assign: the agent files and the
\* Logger's switch, which only the command line layer sets.
envVars == <<agentDirs, globFail, agentFiles, loggerVerbose>>
syncVars == <<toCreate, toUpdate, toDelete, created, updated, deleted>>
genVars == <<generated, skipped>>

\* ------------------------------------------------------------ YAML values
\* A decoded header field: its JavaScript type and its text.
Val(t, v) == [t |-> t, v |-> v]
Absent == Val("absent", <<>>)
StrVal(s) == Val("str", s)
NumVal(s) == Val("num", s)
ListVal(items) == Val("list", items)

\* JavaScript truthiness, as the && of parseAgentFile tests it.
Truthy(val) ==
  CASE val.t = "absent" -> FALSE
    [] val.t = "str" -> val.v # <<>>
    [] val.t = "num" -> val.v # <<"0">>
    [] OTHER -> TRUE

IsNonEmptyString(val) == val.t = "str" /\ val.v # <<>>

\* ------------------------------------------------------------- header text
\* Files whose text is modelled character by character: the header block is
\* decoded and repaired as the code and the YAML decoder do it.
Nl == "\n"
Fence == <<"-", "-", "-">>
Bell == "BEL"

StartsWith(s, p) == Len(s) >= Len(p) /\ SubSeq(s, 1, Len(p)) = p

RECURSIVE IndexFrom(_, _, _)
\* indexOf: where pat first occurs in s at or after position from, 0 if nowhere.
IndexFrom(s, pat, from) ==
  IF from + Len(pat) - 1 > Len(s) THEN 0
  ELSE IF SubSeq(s, from, from + Len(pat) - 1) = pat THEN from
  ELSE IndexFrom(s, pat, from + 1)

\* String.replace with a string pattern: the first occurrence only.  (The
\* texts of the model hold no '$', so the replacement is inserted verbatim.)
ReplaceFirst(s, pat, new) ==
  LET i == IndexFrom(s, pat, 1)
  IN IF i = 0 THEN s ELSE SubSeq(s, 1, i - 1) \o new \o SubSeq(s, i + Len(pat), Len(s))

RECURSIVE Split(_, _)
Split(s, sep) ==
  LET i == IndexFrom(s, <<sep>>, 1)
  IN IF i = 0 THEN <<s>> ELSE <<SubSeq(s, 1, i - 1)>> \o Split(SubSeq(s, i + 1, Len(s)), sep)

RECURSIVE Join(_, _)
Join(lines, sep) ==
  IF Len(lines) = 0 THEN <<>>
  ELSE IF Len(lines) = 1 THEN lines[1]
  ELSE lines[1] \o <<sep>> \o Join(Tail(lines), sep)

IsSpace(c) == c \in {" ", "\t"}

\* [\w-]
IsWordChar(c) ==
  c \in {"a", "b", "c", "d", "e", "f", "g", "h", "i", "j", "k", "l", "m", "n", "o", "p",
         "q", "r", "s", "t", "u", "v", "w", "x", "y", "z", "X", "Y", "_", "-",
         "0", "1", "2", "3", "4", "5", "6", "7", "8", "9"}

RECURSIVE SkipSpaces(_, _)
\* \s*: the first position at or after k that holds no white space.
SkipSpaces(s, k) == IF k <= Len(s) /\ IsSpace(s[k]) THEN SkipSpaces(s, k + 1) ELSE k

RECURSIVE SkipWord(_, _)
SkipWord(s, k) == IF k <= Len(s) /\ IsWordChar(s[k]) THEN SkipWord(s, k + 1) ELSE k

RECURSIVE TrimRight(_)
TrimRight(s) == IF Len(s) > 0 /\ IsSpace(s[Len(s)]) THEN TrimRight(SubSeq(s, 1, Len(s) - 1)) ELSE s

NoMatch == [found |-> FALSE, key |-> <<>>, value |-> <<>>]

\* content.match(/^---\n([\s\S]*?)\n---/): the shortest block between fences.
HeaderMatch(content) ==
  IF ~StartsWith(content, Fence \o <<Nl>>) THEN NoMatch
  ELSE LET j == IndexFrom(content, <<Nl>> \o Fence, 5)
       IN IF j = 0 THEN NoMatch
          ELSE [found |-> TRUE, key |-> <<>>, value |-> SubSeq(content, 5, j - 1)]

\* line.match(/^(\s*[\w-]+):\s*(.*)$/)
KeyValMatch(line) ==
  LET w == SkipSpaces(line, 1)
      c == SkipWord(line, w)
  IN IF c = w \/ c > Len(line) \/ line[c] # ":" THEN NoMatch
     ELSE [found |-> TRUE, key |-> SubSeq(line, 1, c - 1),
           value |-> SubSeq(line, SkipSpaces(line, c + 1), Len(line))]

RECURSIVE EscapeQuotes(_)
\* value.replace(/"/g, '\\"')
EscapeQuotes(s) ==
  IF Len(s) = 0 THEN <<>>
  ELSE (IF s[1] = "\"" THEN <<"\\", "\"">> ELSE <<s[1]>>) \o EscapeQuotes(Tail(s))

Includes(s, c) == \E k \in 1..Len(s) : s[k] = c

\* The callback of lines.map in fixFrontmatter.
FixLine(line) ==
  LET m == KeyValMatch(line)
  IN IF /\ m.found
        /\ m.value # <<>>
        /\ m.value[1] \notin {"\"", "'", "[", "{"}
        /\ (Includes(m.value, ":") \/ Includes(m.value, "#"))
       THEN m.key \o <<":", " ", "\"">> \o EscapeQuotes(m.value) \o <<"\"">>
       ELSE line

\* fixFrontmatter on the text of a file.
fixFrontmatterText(content) ==
  LET m == HeaderMatch(content)
      lines == Split(m.value, Nl)
      fixedLines == [k \in 1..Len(lines) |-> FixLine(lines[k])]
  IN IF ~m.found THEN content
     ELSE ReplaceFirst(content, m.value, Join(fixedLines, Nl))

\* ---- the YAML decoder on one-line scalars
RECURSIVE PlainScalar(_, _)
\* A plain scalar ends at " #" (a comment); ": " or a final ":" inside it is
\* a mapping indicator where none is allowed.
PlainScalar(v, k) ==
  IF k > Len(v) THEN [kind |-> "ok", err |-> "", value |-> [t |-> "str", v |-> TrimRight(v)]]
  ELSE IF v[k] = ":" /\ (k = Len(v) \/ v[k + 1] = " ")
    THEN [kind |-> "throw", err |-> "MappingValuesNotAllowed", value |-> <<>>]
  ELSE IF v[k] = "#" /\ k > 1 /\ v[k - 1] = " "
    THEN [kind |-> "ok", err |-> "", value |-> [t |-> "str", v |-> TrimRight(SubSeq(v, 1, k - 1))]]
  ELSE PlainScalar(v, k + 1)

\* What may follow a closing quote on the line: blanks, then maybe a comment.
QuotedTailOk(v, k) ==
  LET r == SubSeq(v, k, Len(v))
  IN TrimRight(r) = <<>> \/ (Len(r) >= 2 /\ r[1] = " " /\ SkipSpaces(r, 1) <= Len(r)
                              /\ r[SkipSpaces(r, 1)] = "#")

RECURSIVE DoubleQuoted(_, _, _)
\* "..." with the escapes \" \\ \a and backslash-space; any other escape is unknown.
DoubleQuoted(v, k, acc) ==
  IF k > Len(v) THEN [kind |-> "throw", err |-> "UnexpectedEnd", value |-> <<>>]
  ELSE IF v[k] = "\""
    THEN IF QuotedTailOk(v, k + 1)
           THEN [kind |-> "ok", err |-> "", value |-> [t |-> "str", v |-> acc]]
           ELSE [kind |-> "throw", err |-> "BadMappingEntry", value |-> <<>>]
  ELSE IF v[k] = "\\"
    THEN IF k = Len(v) THEN [kind |-> "throw", err |-> "UnexpectedEnd", value |-> <<>>]
         ELSE IF v[k + 1] \in {"\"", "\\", " "} THEN DoubleQuoted(v, k + 2, Append(acc, v[k + 1]))
         ELSE IF v[k + 1] = "a" THEN DoubleQuoted(v, k + 2, Append(acc, Bell))
         ELSE [kind |-> "throw", err |-> "UnknownEscape", value |-> <<>>]
  ELSE DoubleQuoted(v, k + 1, Append(acc, v[k]))

RECURSIVE SingleQuoted(_, _, _)
\* '...' where '' stands for one quote.
SingleQuoted(v, k, acc) ==
  IF k > Len(v) THEN [kind |-> "throw", err |-> "UnexpectedEnd", value |-> <<>>]
  ELSE IF v[k] = "'"
    THEN IF k < Len(v) /\ v[k + 1] = "'" THEN SingleQuoted(v, k + 2, Append(acc, "'"))
         ELSE IF QuotedTailOk(v, k + 1)
           THEN [kind |-> "ok", err |-> "", value |-> [t |-> "str", v |-> acc]]
         ELSE [kind |-> "throw", err |-> "BadMappingEntry", value |-> <<>>]
  ELSE SingleQuoted(v, k + 1, Append(acc, v[k]))

\* The value of one "key: value" line.  The texts of the model never close a
\* flow collection, so "[" and "{" open one that runs into the end of the block.
DecodeScalar(v) ==
  IF v = <<>> \/ v[1] = "#" THEN [kind |-> "ok", err |-> "", value |-> [t |-> "absent", v |-> <<>>]]
  ELSE IF v[1] = "\"" THEN DoubleQuoted(v, 2, <<>>)
  ELSE IF v[1] = "'" THEN SingleQuoted(v, 2, <<>>)
  ELSE IF v[1] \in {"[", "{"} THEN [kind |-> "throw", err |-> "UnexpectedEnd", value |-> <<>>]
  ELSE PlainScalar(v, 1)

RECURSIVE KeyEnd(_, _)
\* The ":" that ends the key: the first one followed by a blank or the line end.
KeyEnd(line, k) ==
  IF k > Len(line) THEN 0
  ELSE IF line[k] = ":" /\ (k = Len(line) \/ line[k + 1] = " ") THEN k
  ELSE KeyEnd(line, k + 1)

DecodeLine(line) ==
  LET c == KeyEnd(line, 1)
  IN IF c < 2 THEN [kind |-> "throw", err |-> "BadMappingEntry", key |-> <<>>, value |-> <<>>]
     ELSE LET r == DecodeScalar(SubSeq(line, SkipSpaces(line, c + 1), Len(line)))
          IN [kind |-> r.kind, err |-> r.err, key |-> SubSeq(line, 1, c - 1), value |-> r.value]

KeyName == <<"n", "a", "m", "e">>
KeyDescription == <<"d", "e", "s", "c", "r", "i", "p", "t", "i", "o", "n">>

\* The decoded value of a key, absent when no line holds it.
Field(decoded, key) ==
  IF \E k \in 1..Len(decoded) : decoded[k].key = key
    THEN decoded[CHOOSE k \in 1..Len(decoded) :
                   decoded[k].key = key /\ \A j \in (k + 1)..Len(decoded) : decoded[j].key # key].value
    ELSE [t |-> "absent", v |-> <<>>]

\* gray-matter on a text: no header block when the text does not open with a
\* fence; otherwise the block up to the closing fence is decoded line by line
\* and the first line that cannot be decoded raises.
matterText(content) ==
  IF ~StartsWith(content, Fence) \/ (Len(content) > 3 /\ content[4] = "-")
    THEN [kind |-> "ok", err |-> "",
          value |-> [name |-> [t |-> "absent", v |-> <<>>], description |-> [t |-> "absent", v |-> <<>>],
                    tools |-> [t |-> "absent", v |-> <<>>]]]
  ELSE LET rest == SubSeq(content, 4, Len(content))
           close == IndexFrom(rest, <<Nl>> \o Fence, 1)
           block == IF close = 0 THEN rest ELSE SubSeq(rest, 1, close - 1)
           lines == SelectSeq(Split(block, Nl), LAMBDA l : TrimRight(l) # <<>>)
           decoded == [k \in 1..Len(lines) |-> DecodeLine(lines[k])]
           bad == {k \in 1..Len(lines) : decoded[k].kind = "throw"}
       IN IF bad # {}
            THEN [kind |-> "throw", err |-> decoded[CHOOSE k \in bad : \A j \in bad : k <= j].err,
                  value |-> <<>>]
            ELSE [kind |-> "ok", err |-> "",
                  value |-> [name |-> Field(decoded, KeyName),
                             description |-> Field(decoded, KeyDescription),
                             tools |-> [t |-> "absent", v |-> <<>>]]]

\* ------------------------------------------------------------ agent files
\* io: "absent" (no file), "ok", "dangling" (listed by glob, existsSync false),
\*     "unreadable" (readFileSync throws).
\* yaml: "none" (no header block), "ok", "repairable" (decoding throws, decodes
\*     after the repair pass), "broken" (decoding throws before and after),
\*     "text" (the file is given by its text and parsed by parseAgentText).
AgentContent(io, yaml, name, description) ==
  [io |-> io, yaml |-> yaml, name |-> name, description |-> description, tools |-> Absent]

\* The same file with a tools field in its header: a scalar or a list.
WithTools(content, tools) == [content EXCEPT !.tools = tools]

\* A readable file given by its text.
TextContent(text) ==
  [io |-> "ok", yaml |-> "text", name |-> Absent, description |-> Absent, tools |-> Absent,
   text |-> text]

NoFile == AgentContent("absent", "none", Absent, Absent)

\* The project root holds up to MaxAgentFiles files, the user root one.
AgentPaths == ({"project"} \X (1..MaxAgentFiles)) \cup {<<"user", 1>>}

Ok(v) == [kind |-> "ok", err |-> "", value |-> v]
Throw(e) == [kind |-> "throw", err |-> e, value |-> <<>>]
Null == [kind |-> "null", err |-> "", value |-> <<>>]

\* gray-matter on the raw text: the decoded data, or a YAMLException.
matter(content) ==
  CASE content.yaml \in {"repairable", "broken"} -> Throw("YAMLException")
    [] content.yaml = "none" -> Ok([name |-> Absent, description |-> Absent, tools |-> Absent])
    [] OTHER -> Ok([name |-> content.name, description |-> content.description,
                    tools |-> content.tools])

\* The repair pass quotes the offending scalars; text it cannot repair is
\* returned as it was.
fixFrontmatter(content) ==
  IF content.yaml = "repairable" THEN [content EXCEPT !.yaml = "ok"] ELSE content

\* The outcome of a decoding, with the number of calls of matter and whether
\* the repair pass ran.
Decoded(r, calls, repaired) ==
  [kind |-> r.kind, err |-> r.err, value |-> r.value, calls |-> calls, repaired |-> repaired]

\* Variant whose inner catch lets the error of the retry through.
DecodeWithRepairRetryError(first, retry) ==
  IF first.kind # "throw" THEN Decoded(first, 1, FALSE) ELSE Decoded(retry, 2, TRUE)

\* try { matter } catch { try { matter(fix) } catch { throw error } }, where
\* first is the outcome of matter(content) and retry, looked at only when
\* first is a failure, that of matter(fixFrontmatter(content)).
DecodeWithRepair(first, retry) ==
  IF first.kind # "throw" THEN Decoded(first, 1, FALSE)
  ELSE IF retry.kind = "throw" THEN Decoded(first, 2, TRUE)
  ELSE Decoded(retry, 2, TRUE)

\* Variant that tags every entry with the project scope.
AgentEntryProjectTag(path, data, scope) ==
  [path |-> path, scope |-> "project", name |-> data.name, description |-> data.description,
   tools |-> data.tools]

\* { path, relativePath, frontmatter, content, scope }: the header fields are
\* kept as they were decoded.
AgentEntry(path, data, scope) ==
  [path |-> path, scope |-> scope, name |-> data.name, description |-> data.description,
   tools |-> data.tools]

\* parseAgentFile after the decoding: the mandatory fields and the entry.
ValidateAgent(path, parsed, scope) ==
  IF parsed.kind = "throw" THEN parsed
  ELSE IF ~(Truthy(parsed.value.name) /\ Truthy(parsed.value.description)) THEN Null
  ELSE Ok(AgentEntry(path, parsed.value, scope))

parseAgentFile(path, content, scope) ==
  IF content.io = "dangling" THEN Null
  ELSE IF content.io = "unreadable" THEN Throw("EACCES")
  ELSE ValidateAgent(path,
                     DecodeWithRepair(matter(content), matter(fixFrontmatter(content))),
                     scope)

\* The decoding steps of parseAgentFile on a file given by its text.
DecodeText(text) ==
  DecodeWithRepair(matterText(text), matterText(fixFrontmatterText(text)))

\* parseAgentFile on a readable file given by its text.
parseAgentText(path, text, scope) == ValidateAgent(path, DecodeText(text), scope)

\* The two roots of a kind are named after the scope they belong to.
getProjectAgentsDir == "project"
getUserAgentsDir == "user"
getProjectCommandsDir == "project"
getUserCommandsDir == "user"

\* { path, scope }: a root directory and the scope it is tagged with.
Dir(path, scope) == [path |-> path, scope |-> scope]

\* Variant without the existence checks.
getAgentsDirsUnchecked(scope) ==
  (IF scope \in {"both", "project"} THEN <<Dir(getProjectAgentsDir, "project")>> ELSE <<>>)
  \o (IF scope \in {"both", "user"} THEN <<Dir(getUserAgentsDir, "user")>> ELSE <<>>)

\* PathUtils.getValidAgentsDirs: project before user, existing roots only.
getValidAgentsDirs(scope) ==
  (IF scope \in {"both", "project"} /\ getProjectAgentsDir \in agentDirs
     THEN <<Dir(getProjectAgentsDir, "project")>> ELSE <<>>)
  \o (IF scope \in {"both", "user"} /\ getUserAgentsDir \in agentDirs
        THEN <<Dir(getUserAgentsDir, "user")>> ELSE <<>>)

\* glob(root/**/*.md): the files below the root, or a rejection.
GlobAgents(root) ==
  IF root \in globFail THEN Throw("EACCES")
  ELSE Ok(SelectSeq([j \in 1..MaxAgentFiles |-> <<root, j>>],
                    LAMBDA p : p \in DOMAIN agentFiles /\ agentFiles[p].io # "absent"))

Scan(raised, list) == [raised |-> raised, agents |-> list]

\* Variant without the inner try/catch: a parse failure leaves discoverAgents.
ScanAgentFileRethrow(acc, path, scope) ==
  IF acc.raised THEN acc
  ELSE LET r == parseAgentFile(path, agentFiles[path], scope)
       IN CASE r.kind = "ok" -> Scan(FALSE, Append(acc.agents, r.value))
            [] r.kind = "throw" -> Scan(TRUE, acc.agents)
            [] OTHER -> acc

\* The inner try/catch of discoverAgents: one file of one root.
ScanAgentFile(acc, path, scope) ==
  IF acc.raised THEN acc
  ELSE LET r == parseAgentFile(path, agentFiles[path], scope)
       IN CASE r.kind = "ok" -> Scan(FALSE, Append(acc.agents, r.value))
            [] r.kind = "throw" -> acc
            [] OTHER -> acc

RECURSIVE ScanAgentFiles(_, _, _, _)
ScanAgentFiles(acc, files, k, scope) ==
  IF k > Len(files) THEN acc
  ELSE ScanAgentFiles(ScanAgentFile(acc, files[k], scope), files, k + 1, scope)

\* The outer try/catch of discoverAgents: one root.
ScanAgentsDir(acc, dir) ==
  IF acc.raised THEN acc
  ELSE LET g == GlobAgents(dir.path)
       IN IF g.kind = "throw" THEN acc ELSE ScanAgentFiles(acc, g.value, 1, dir.scope)

RECURSIVE ScanAgentsDirs(_, _, _)
ScanAgentsDirs(acc, dirs, k) ==
  IF k > Len(dirs) THEN acc
  ELSE ScanAgentsDirs(ScanAgentsDir(acc, dirs[k]), dirs, k + 1)

discoverAgents(scope) == ScanAgentsDirs(Scan(FALSE, <<>>), getValidAgentsDirs(scope), 1)

\* Kinds of file system calls discoverAgents makes: the existence checks of the
\* roots, one glob per valid root, existsSync and readFileSync per listed file.
DiscoverAgentsIo(scope) ==
  LET dirs == getValidAgentsDirs(scope)
      listed == UNION {IF GlobAgents(dirs[k].path).kind = "ok"
                         THEN Range(GlobAgents(dirs[k].path).value) ELSE {} :
                       k \in 1..Len(dirs)}
  IN {"exists"}
     \cup (IF Len(dirs) > 0 THEN {"glob"} ELSE {})
     \cup (IF \E q \in listed : agentFiles[q].io # "dangling" THEN {"read"} ELSE {})

\* ---------------------------------------------------------- command files
\* human: the text holds 'Generated by cc-slash-agents'; marker: it holds
\* '<!-- ccsa:generated -->'; yaml: "ok" (a header with fields), "empty" (a
\* header with no field), "none" (no header block) or "broken" (gray-matter
\* throws); body: the text that follows; io: "ok", "unreadable" (readFileSync
\* throws) or "dangling" (listed by glob, existsSync false).
CmdContent(human, marker, yaml, body) ==
  [human |-> human, marker |-> marker, yaml |-> yaml, body |-> body, io |-> "ok"]

Unreadable(content) == [content EXCEPT !.io = "unreadable"]
Dangling(content) == [content EXCEPT !.io = "dangling"]

MdExt == <<".", "m", "d">>

\* Relative paths a commands root can hold, in the order glob lists them.
CmdRelOrder == << <<"o">> \o MdExt, <<"x">> \o MdExt, <<"x", "-", "2">> \o MdExt >>

RECURSIVE ReplaceFirstMd(_)
\* relativePath.replace('.md', ''): the first occurrence is removed.
ReplaceFirstMd(s) ==
  IF Len(s) < 3 THEN s
  ELSE IF SubSeq(s, 1, 3) = MdExt THEN SubSeq(s, 4, Len(s))
  ELSE <<s[1]>> \o ReplaceFirstMd(Tail(s))

\* A path is <<root, relative path>>.
CommandEntry(path, content, scope) ==
  [path |-> path, scope |-> scope, relativePath |-> path[2], frontmatter |-> content.yaml]

\* Variant that drops files without header fields, as parseAgentFile does.
parseCommandFileMandatory(path, content, scope) ==
  IF content.io = "dangling" THEN Null
  ELSE IF content.io = "unreadable" THEN Throw("EACCES")
  ELSE IF content.yaml = "broken" THEN Throw("YAMLException")
  ELSE IF content.yaml \in {"none", "empty"} THEN Null
  ELSE Ok(CommandEntry(path, content, scope))

\* parseCommandFile: no repair pass and no mandatory field.
parseCommandFile(path, content, scope) ==
  IF content.io = "dangling" THEN Null
  ELSE IF content.io = "unreadable" THEN Throw("EACCES")
  ELSE IF content.yaml = "broken" THEN Throw("YAMLException")
  ELSE Ok(CommandEntry(path, content, scope))

\* Commands roots that exist for the scope, project before user.
ValidCommandsDirs(files, root, scope) ==
  (IF scope \in {"both", "project"} /\ root[getProjectCommandsDir] # "absent"
     THEN <<Dir(getProjectCommandsDir, "project")>> ELSE <<>>)
  \o (IF scope \in {"both", "user"} /\ root[getUserCommandsDir] # "absent"
        THEN <<Dir(getUserCommandsDir, "user")>> ELSE <<>>)

\* One commands root: every listed file whose parse returns an entry; a parse
\* that throws is caught per file.
ScanCommandsDir(files, dir) ==
  LET listed == SelectSeq(CmdRelOrder, LAMBDA rel : <<dir.path, rel>> \in DOMAIN files)
      parse(rel) == parseCommandFile(<<dir.path, rel>>, files[<<dir.path, rel>>], dir.scope)
      kept == SelectSeq(listed, LAMBDA rel : parse(rel).kind = "ok")
  IN [k \in 1..Len(kept) |-> parse(kept[k]).value]

RECURSIVE ScanCommandsDirs(_, _, _)
ScanCommandsDirs(files, dirs, k) ==
  IF k > Len(dirs) THEN <<>>
  ELSE ScanCommandsDir(files, dirs[k]) \o ScanCommandsDirs(files, dirs, k + 1)

discoverCommands(files, root, scope) ==
  ScanCommandsDirs(files, ValidCommandsDirs(files, root, scope), 1)

\* Kinds of file system calls discoverCommands makes.
DiscoverCommandsIo(files, root, scope) ==
  LET dirs == ValidCommandsDirs(files, root, scope)
  IN {"exists"}
     \cup (IF Len(dirs) > 0 THEN {"glob"} ELSE {})
     \cup (IF \E k \in 1..Len(dirs) : \E q \in DOMAIN files :
                q[1] = dirs[k].path /\ files[q].io # "dangling"
            THEN {"read"} ELSE {})

\* Variant that looks for the human-readable phrase only.
isGeneratedFileHumanOnly(files, path) ==
  IF path \notin DOMAIN files \/ files[path].io = "dangling" THEN FALSE
  ELSE IF files[path].io = "unreadable" THEN FALSE
  ELSE files[path].human

\* existsSync, then readFileSync and the two includes inside a try/catch.
isGeneratedFile(files, path) ==
  IF path \notin DOMAIN files \/ files[path].io = "dangling" THEN FALSE
  ELSE IF files[path].io = "unreadable" THEN FALSE
  ELSE files[path].human \/ files[path].marker

\* ------------------------------------------------------ command generator
\* Variant that embeds the human-readable phrase only.
RenderPhraseOnly(agent) == CmdContent(TRUE, FALSE, "ok", agent.name.v)

\* 4.5: the rendered file carries both signature tokens and the agent's body.
Render(agent) == CmdContent(TRUE, TRUE, "ok", agent.name.v)

DestOf(agent, targetScope) == <<targetScope, generateCommandName(agent.name.v) \o MdExt>>

GenOutcome(kind, err, agent, targetScope, files, root) ==
  [kind |-> kind, err |-> err, commandName |-> generateCommandName(agent.name.v),
   dest |-> DestOf(agent, targetScope), files |-> files, root |-> root]

\* Outcomes of the file system calls of one generateCommand: the write succeeds,
\* the directory cannot be created, or the file cannot be written.
IoChoices(root, targetScope, failed) ==
  IF failed >= MaxIoFailures THEN {"ok"}
  ELSE IF root[targetScope] = "absent" THEN {"ok", "mkdir", "write"}
  ELSE {"ok", "write"}

\* Failures so far that the environment chose (the others follow from the
\* state of the file system).
IoFailures(log) == Len(SelectSeq(log, LAMBDA e : e.err = "EACCES"))

\* 4.5 generate(agent, targetScope, force) on the file system (files, root).
generateCommand(files, root, agent, targetScope, force, io) ==
  LET dest == DestOf(agent, targetScope)
      made == [root EXCEPT ![targetScope] = "dir"]
  IN IF dest \in DOMAIN files /\ ~force
       THEN GenOutcome("throw", "AlreadyExists", agent, targetScope, files, root)
     ELSE IF root[targetScope] = "file"
       THEN GenOutcome("throw", "EEXIST", agent, targetScope, files, root)
     ELSE IF io = "mkdir"
       THEN GenOutcome("throw", "EACCES", agent, targetScope, files, root)
     ELSE IF io = "write"
       THEN GenOutcome("throw", "EACCES", agent, targetScope, files, made)
     ELSE GenOutcome("ok", "", agent, targetScope, MapSet(files, dest, Render(agent)), made)

\* error.message.includes('already exists'): true of the generator's conflict
\* error and of Node's EEXIST ("EEXIST: file already exists, mkdir ...").
MessageIncludesAlreadyExists(err) == err \in {"AlreadyExists", "EEXIST"}

TargetScope(scope) == IF scope = "both" THEN "project" ELSE scope

\* Kinds of file system calls one generateCommand made, from its outcome.
GenerateIo(r) == IF r.err = "AlreadyExists" THEN {"exists"} ELSE {"exists", "write"}

\* The operation or function last called and what it returned.
Call(name, value) == [call |-> name, value |-> value]

AgentNames(list) == [k \in 1..Len(list) |-> list[k].name.v]

\* -------------------------------------------------------------------- sync
\* Variant that keeps every discovered command.
AllCommands(files, existing) == existing

\* existingCommands.filter((c) => FileDiscovery.isGeneratedFile(c.path))
GeneratedCommands(files, existing) ==
  SelectSeq(existing, LAMBDA c : isGeneratedFile(files, c.path))

CommandNameOf(c) == ReplaceFirstMd(c.relativePath)

\* generatedCommands.find(...) found a command (lines 67-73).
HasMatch(gen, nm, a) == \E k \in 1..Len(gen) : CommandNameOf(gen[k]) = nm[a.name.v]

\* generatedCommands.find(...): the first match in discovery order.
FirstMatch(gen, nm, a) ==
  gen[CHOOSE k \in 1..Len(gen) :
        /\ CommandNameOf(gen[k]) = nm[a.name.v]
        /\ \A j \in 1..(k - 1) : CommandNameOf(gen[j]) # nm[a.name.v]]

\* Variant whose push to toCreate is not in the else branch.
ClassifyCreateEvery(ags, gen, nm) == ags

ClassifyCreate(ags, gen, nm) == SelectSeq(ags, LAMBDA a : ~HasMatch(gen, nm, a))

ClassifyUpdate(ags, gen, nm) ==
  LET m == SelectSeq(ags, LAMBDA a : HasMatch(gen, nm, a))
  IN [k \in 1..Len(m) |-> [agent |-> m[k], command |-> FirstMatch(gen, nm, m[k])]]

\* Variant that collects the orphans whatever the flag says.
ClassifyDeleteAlways(gen, nm, clean) ==
  LET o == SelectSeq(gen, LAMBDA c : CommandNameOf(c) \notin MapValues(nm))
  IN [k \in 1..Len(o) |-> o[k].path]

\* if (options.clean) { for (const command of generatedCommands) ... }
ClassifyDelete(gen, nm, clean) ==
  IF clean
    THEN LET o == SelectSeq(gen, LAMBDA c : CommandNameOf(c) \notin MapValues(nm))
         IN [k \in 1..Len(o) |-> o[k].path]
    ELSE <<>>

\* Where the three execution loops stand: the loop and the index of the next
\* item, or the summary when every loop is exhausted.
AfterDelete(td, clean, k) ==
  IF clean /\ k <= Len(td) THEN <<"sync_delete", k>> ELSE <<"sync_summary", 0>>
AfterUpdate(tu, td, clean, k) ==
  IF k <= Len(tu) THEN <<"sync_update", k>> ELSE AfterDelete(td, clean, 1)
\* Variant that runs the update loop before the create loop.
AfterCreateUpdatesFirst(tc, tu, td, clean, k) ==
  IF k = 1 /\ Len(tu) > 0 THEN <<"sync_update", 1>>
  ELSE IF k <= Len(tc) THEN <<"sync_create", k>> ELSE AfterUpdate(tu, td, clean, 1)
AfterCreate(tc, tu, td, clean, k) ==
  IF k <= Len(tc) THEN <<"sync_create", k>> ELSE AfterUpdate(tu, td, clean, 1)

SyncError(op, what, err) == [op |-> op, what |-> what, err |-> err]

\* syncCommands up to the end of the analysis (lines 27-119): the scope check,
\* the two scans, the name map and the classification.
SyncAnalysis(o) ==
  /\ opts' = o
  /\ UNCHANGED <<envVars, cmdRoot, cmdFiles, genVars>>
  /\ ioLog' = IF o.scope \notin ScopeArgs THEN ioLog
              ELSE ioLog \cup DiscoverAgentsIo(o.scope)
                         \cup DiscoverCommandsIo(cmdFiles, cmdRoot, o.scope)
  /\ IF o.scope \notin ScopeArgs
       THEN /\ pc' = "failed"
            /\ outcome' = "InvalidScope"
            /\ UNCHANGED <<agents, nameMap, toCreate, toUpdate, toDelete, idx>>
     ELSE LET found == discoverAgents(o.scope)
              existing == discoverCommands(cmdFiles, cmdRoot, o.scope)
              gen == GeneratedCommands(cmdFiles, existing)
              nm == resolveNamingConflicts(AgentNames(found.agents))
              tc == ClassifyCreate(found.agents, gen, nm)
              tu == ClassifyUpdate(found.agents, gen, nm)
              td == ClassifyDelete(gen, nm, o.clean)
              next == AfterCreate(tc, tu, td, o.clean, 1)
          IN IF found.raised
               THEN /\ pc' = "failed"
                    /\ outcome' = "Raised"
                    /\ UNCHANGED <<agents, nameMap, toCreate, toUpdate, toDelete, idx>>
             ELSE IF Len(found.agents) = 0
               THEN /\ pc' = "done"
                    /\ outcome' = "NoAgents"
                    /\ agents' = found.agents
                    /\ UNCHANGED <<nameMap, toCreate, toUpdate, toDelete, idx>>
             ELSE /\ agents' = found.agents
                  /\ nameMap' = nm
                  /\ toCreate' = tc
                  /\ toUpdate' = tu
                  /\ toDelete' = td
                  /\ IF Len(tc) = 0 /\ Len(tu) = 0 /\ Len(td) = 0
                       THEN pc' = "done" /\ outcome' = "UpToDate" /\ idx' = 0
                       ELSE pc' = next[1] /\ idx' = next[2] /\ outcome' = "Syncing"

\* A sync run started on the command line.
SyncStart(o) ==
  /\ pc = "idle"
  /\ ret' = Call("sync", <<>>)
  /\ UNCHANGED <<fs0, writes, removed, errors, created, updated, deleted>>
  /\ SyncAnalysis(o)

\* The same command run once more after a run that ended without recorded
\* errors: the counters and lists are the fresh locals of the new call, and
\* ret keeps how the first run ended.
SyncAgain ==
  /\ pc = "done"
  /\ ret = Call("sync", <<>>)
  /\ errors = <<>>
  /\ ret' = Call("sync", [outcome |-> outcome, created |-> created, updated |-> updated,
                          deleted |-> deleted])
  /\ fs0' = cmdFiles
  /\ writes' = <<>>
  /\ removed' = {}
  /\ errors' = <<>>
  /\ created' = 0
  /\ updated' = 0
  /\ deleted' = 0
  /\ SyncAnalysis(opts)

\* Variant whose catch block records nothing.
SyncGenerateSilent(agent, op, io) ==
  LET r == generateCommand(cmdFiles, cmdRoot, agent, TargetScope(opts.scope), TRUE, io)
  IN /\ cmdFiles' = r.files
     /\ cmdRoot' = r.root
     /\ ioLog' = ioLog \cup GenerateIo(r)
     /\ errors' = errors
     /\ IF r.kind = "ok"
          THEN /\ writes' = Append(writes, <<agent.name.v, r.dest>>)
               /\ created' = IF op = "create" THEN created + 1 ELSE created
               /\ updated' = IF op = "update" THEN updated + 1 ELSE updated
          ELSE UNCHANGED <<writes, created, updated>>

\* One iteration of a create or update loop: generateCommand(agent, scope, true)
\* inside its try/catch.
SyncGenerate(agent, op, io) ==
  LET r == generateCommand(cmdFiles, cmdRoot, agent, TargetScope(opts.scope), TRUE, io)
  IN /\ cmdFiles' = r.files
     /\ cmdRoot' = r.root
     /\ ioLog' = ioLog \cup GenerateIo(r)
     /\ IF r.kind = "ok"
          THEN /\ writes' = Append(writes, <<agent.name.v, r.dest>>)
               /\ errors' = errors
               /\ created' = IF op = "create" THEN created + 1 ELSE created
               /\ updated' = IF op = "update" THEN updated + 1 ELSE updated
          ELSE /\ errors' = Append(errors, SyncError(op, agent.name.v, r.err))
               /\ UNCHANGED <<writes, created, updated>>

SyncCreate ==
  /\ pc = "sync_create"
  /\ \E io \in IoChoices(cmdRoot, TargetScope(opts.scope), IoFailures(errors)) :
       SyncGenerate(toCreate[idx], "create", io)
  /\ LET next == AfterCreate(toCreate, toUpdate, toDelete, opts.clean, idx + 1)
     IN pc' = next[1] /\ idx' = next[2]
  /\ UNCHANGED <<envVars, opts, agents, nameMap, toCreate, toUpdate, toDelete,
                 genVars, deleted, fs0, removed, outcome, ret>>

SyncUpdate ==
  /\ pc = "sync_update"
  /\ \E io \in IoChoices(cmdRoot, TargetScope(opts.scope), IoFailures(errors)) :
       SyncGenerate(toUpdate[idx].agent, "update", io)
  /\ LET next == AfterUpdate(toUpdate, toDelete, opts.clean, idx + 1)
     IN pc' = next[1] /\ idx' = next[2]
  /\ UNCHANGED <<envVars, opts, agents, nameMap, toCreate, toUpdate, toDelete,
                 genVars, deleted, fs0, removed, outcome, ret>>

\* unlinkSync(path): removes the file, or throws.
Unlink(files, path, io) ==
  IF path \notin DOMAIN files THEN [kind |-> "throw", err |-> "ENOENT", files |-> files]
  ELSE IF io = "fail" THEN [kind |-> "throw", err |-> "EACCES", files |-> files]
  ELSE [kind |-> "ok", err |-> "",
        files |-> [q \in DOMAIN files \ {path} |-> files[q]]]

SyncDelete ==
  /\ pc = "sync_delete"
  /\ \E io \in (IF IoFailures(errors) >= MaxIoFailures THEN {"ok"} ELSE {"ok", "fail"}) :
       LET r == Unlink(cmdFiles, toDelete[idx], io)
       IN /\ cmdFiles' = r.files
          /\ ioLog' = ioLog \cup {"unlink"}
          /\ IF r.kind = "ok"
               THEN /\ deleted' = deleted + 1
                    /\ removed' = removed \cup {toDelete[idx]}
                    /\ errors' = errors
               ELSE /\ errors' = Append(errors, SyncError("delete", toDelete[idx], r.err))
                    /\ UNCHANGED <<deleted, removed>>
  /\ LET next == AfterDelete(toDelete, opts.clean, idx + 1)
     IN pc' = next[1] /\ idx' = next[2]
  /\ UNCHANGED <<envVars, cmdRoot, opts, agents, nameMap, toCreate, toUpdate, toDelete,
                 genVars, created, updated, fs0, writes, outcome, ret>>

SyncSummary ==
  /\ pc = "sync_summary"
  /\ pc' = "done"
  /\ outcome' = "Summary"
  /\ UNCHANGED <<envVars, cmdRoot, cmdFiles, opts, agents, nameMap, syncVars, idx,
                 genVars, errors, fs0, writes, removed, ret, ioLog>>

\* ---------------------------------------------------------------- generate
GenEntry(name, err) == [name |-> name, err |-> err]

\* nameMap.get(name) || name
MapGetOr(m, key, dflt) == IF key \in DOMAIN m THEN m[key] ELSE dflt

\* Variant that goes on to the batch loop whatever the dry-run option says.
AfterPreviewIgnored(o) == <<"gen_loop", "Generating", 1>>

\* if (options.dryRun) { ...; return }: the preview ends the run before the
\* batch loop (lines 189-199).
AfterPreview(o) ==
  IF o.dryRun THEN <<"done", "DryRun", 0>> ELSE <<"gen_loop", "Generating", 1>>

\* generateCommands up to the start of the batch loop (lines 127-205).
GenStart(o) ==
  /\ pc = "idle"
  /\ opts' = o
  /\ ret' = Call("generate", <<>>)
  /\ UNCHANGED <<envVars, cmdRoot, cmdFiles, fs0, writes, removed, syncVars, genVars,
                 errors>>
  /\ ioLog' = IF o.scope \notin ScopeArgs THEN ioLog
              ELSE IF Len(getValidAgentsDirs(o.scope)) = 0 THEN ioLog \cup {"exists"}
              ELSE ioLog \cup DiscoverAgentsIo(o.scope)
  /\ IF o.scope \notin ScopeArgs
       THEN /\ pc' = "failed"
            /\ outcome' = "InvalidScope"
            /\ UNCHANGED <<agents, nameMap, idx>>
     ELSE IF Len(getValidAgentsDirs(o.scope)) = 0
       THEN /\ pc' = "done"
            /\ outcome' = "NoAgentDirs"
            /\ UNCHANGED <<agents, nameMap, idx>>
     ELSE LET found == discoverAgents(o.scope)
          IN IF found.raised
               THEN /\ pc' = "failed"
                    /\ outcome' = "Raised"
                    /\ UNCHANGED <<agents, nameMap, idx>>
             ELSE IF Len(found.agents) = 0
               THEN /\ pc' = "done"
                    /\ outcome' = "NoAgents"
                    /\ agents' = found.agents
                    /\ UNCHANGED <<nameMap, idx>>
             ELSE /\ agents' = found.agents
                  /\ nameMap' = resolveNamingConflicts(AgentNames(found.agents))
                  /\ pc' = AfterPreview(o)[1]
                  /\ outcome' = AfterPreview(o)[2]
                  /\ idx' = AfterPreview(o)[3]

\* The catch block of the batch loop (lines 214-222): skipped or error.
GenCatch(agent, err) ==
  LET commandName == MapGetOr(nameMap, agent.name.v, agent.name.v)
  IN IF MessageIncludesAlreadyExists(err)
       THEN /\ skipped' = Append(skipped, GenEntry(commandName, err))
            /\ errors' = errors
       ELSE /\ errors' = Append(errors, GenEntry(commandName, err))
            /\ skipped' = skipped

\* Variant in which a failed item ends the loop.
AfterGenItemBreak(kind, k) ==
  IF kind = "throw" \/ k > Len(agents) THEN "gen_summary" ELSE "gen_loop"

\* The for..of over agents: a caught failure does not leave the loop.
AfterGenItem(kind, k) == IF k > Len(agents) THEN "gen_summary" ELSE "gen_loop"

\* Variant that forces every write, as the sync loops do.
ForceArgAlways(o) == TRUE

\* The force argument of the loop's generateCommand call: options.force.
ForceArg(o) == o.force

\* One iteration of the batch loop (lines 207-223).
GenStep ==
  /\ pc = "gen_loop"
  /\ \E io \in IoChoices(cmdRoot, TargetScope(opts.scope), IoFailures(errors)) :
       LET r == generateCommand(cmdFiles, cmdRoot, agents[idx], TargetScope(opts.scope),
                                ForceArg(opts), io)
       IN /\ cmdFiles' = r.files
          /\ cmdRoot' = r.root
          /\ ioLog' = ioLog \cup GenerateIo(r)
          /\ pc' = AfterGenItem(r.kind, idx + 1)
          /\ IF r.kind = "ok"
               THEN /\ generated' = Append(generated, r.commandName)
                    /\ writes' = Append(writes, <<agents[idx].name.v, r.dest>>)
                    /\ UNCHANGED <<skipped, errors>>
               ELSE /\ GenCatch(agents[idx], r.err)
                    /\ UNCHANGED <<generated, writes>>
  /\ idx' = idx + 1
  /\ UNCHANGED <<envVars, opts, agents, nameMap, syncVars, fs0, removed, outcome, ret>>

GenSummary ==
  /\ pc = "gen_summary"
  /\ pc' = "done"
  /\ outcome' = "Summary"
  /\ UNCHANGED <<envVars, cmdRoot, cmdFiles, opts, agents, nameMap, syncVars, idx,
                 genVars, errors, fs0, writes, removed, ret, ioLog>>

\* ------------------------------------------------------------------- clean
CommandPaths(list) == [k \in 1..Len(list) |-> list[k].path]

AfterCleanItem(td, k) == IF k > Len(td) THEN "clean_summary" ELSE "clean_loop"

\* cleanCommands up to the confirmation (lines 6-58); toDelete holds the
\* candidates, ret the commands discovered.
CleanStart(o) ==
  /\ pc = "idle"
  /\ opts' = o
  /\ UNCHANGED <<envVars, cmdRoot, cmdFiles, agents, nameMap, toCreate, toUpdate, created,
                 updated, deleted, genVars, errors, fs0, writes, removed>>
  /\ IF o.scope \notin ScopeArgs
       THEN /\ pc' = "failed"
            /\ outcome' = "InvalidScope"
            /\ ret' = Call("clean", <<>>)
            /\ UNCHANGED <<toDelete, idx, ioLog>>
     ELSE LET commands == discoverCommands(cmdFiles, cmdRoot, o.scope)
              generatedCommands == GeneratedCommands(cmdFiles, commands)
          IN /\ ret' = Call("clean", commands)
             /\ ioLog' = ioLog \cup DiscoverCommandsIo(cmdFiles, cmdRoot, o.scope)
             /\ toDelete' = CommandPaths(generatedCommands)
             /\ IF Len(generatedCommands) = 0
                  THEN pc' = "done" /\ outcome' = "NoGenerated" /\ idx' = 0
                ELSE IF o.yes
                  THEN pc' = "clean_loop" /\ outcome' = "Cleaning" /\ idx' = 1
                ELSE pc' = "clean_confirm" /\ outcome' = "Asking" /\ idx' = 0

\* confirmDeletion: only 'y' or 'yes' goes on to the deletion.
CleanConfirm(answer) ==
  /\ pc = "clean_confirm"
  /\ IF answer
       THEN pc' = "clean_loop" /\ outcome' = "Cleaning" /\ idx' = 1
       ELSE pc' = "done" /\ outcome' = "Cancelled" /\ idx' = 0
  /\ UNCHANGED <<envVars, cmdRoot, cmdFiles, opts, agents, nameMap, syncVars, genVars, errors,
                 fs0, writes, removed, ret, ioLog>>

\* One iteration of the deletion loop (lines 64-72).
CleanStep ==
  /\ pc = "clean_loop"
  /\ \E io \in (IF IoFailures(errors) >= MaxIoFailures THEN {"ok"} ELSE {"ok", "fail"}) :
       LET r == Unlink(cmdFiles, toDelete[idx], io)
       IN /\ cmdFiles' = r.files
          /\ IF r.kind = "ok"
               THEN /\ deleted' = deleted + 1
                    /\ removed' = removed \cup {toDelete[idx]}
                    /\ errors' = errors
               ELSE /\ errors' = Append(errors, SyncError("delete", toDelete[idx], r.err))
                    /\ UNCHANGED <<deleted, removed>>
  /\ ioLog' = ioLog \cup {"unlink"}
  /\ idx' = idx + 1
  /\ pc' = AfterCleanItem(toDelete, idx + 1)
  /\ UNCHANGED <<envVars, cmdRoot, opts, agents, nameMap, toCreate, toUpdate, toDelete,
                 genVars, created, updated, fs0, writes, outcome, ret>>

CleanSummary ==
  /\ pc = "clean_summary"
  /\ pc' = "done"
  /\ outcome' = "Summary"
  /\ UNCHANGED <<envVars, cmdRoot, cmdFiles, opts, agents, nameMap, syncVars, idx,
                 genVars, errors, fs0, writes, removed, ret, ioLog>>

\* -------------------------------------------------------------------- list
\* The verbose lines of one agent (lines 62-68 and 78-84): substring on the
\* description, and join on a tools field that is truthy; a value without
\* that method raises a TypeError.
ShowAgentVerbose(agent) ==
  IF agent.description.t # "str" THEN Throw("TypeError")
  ELSE IF Truthy(agent.tools) /\ agent.tools.t # "list" THEN Throw("TypeError")
  ELSE Ok(<<>>)

\* listAgentsAndCommands: the scope check, the two scans the flags ask for,
\* and the report.
ListStart(o) ==
  /\ pc = "idle"
  /\ opts' = o
  /\ UNCHANGED <<envVars, cmdRoot, cmdFiles, nameMap, syncVars, idx, genVars, errors, fs0,
                 writes, removed>>
  /\ IF o.scope \notin ScopeArgs
       THEN /\ pc' = "failed"
            /\ outcome' = "InvalidScope"
            /\ ret' = Call("list", <<>>)
            /\ UNCHANGED <<agents, ioLog>>
     ELSE LET showAgents == ~o.commandsOnly
              showCommands == ~o.agentsOnly
              found == IF showAgents THEN discoverAgents(o.scope) ELSE Scan(FALSE, <<>>)
              commands == IF showCommands THEN discoverCommands(cmdFiles, cmdRoot, o.scope)
                          ELSE <<>>
          IN /\ agents' = found.agents
             /\ ret' = Call("list", commands)
             /\ ioLog' = ioLog
                  \cup (IF showAgents THEN DiscoverAgentsIo(o.scope) ELSE {})
                  \cup (IF showCommands THEN DiscoverCommandsIo(cmdFiles, cmdRoot, o.scope)
                        ELSE {})
             /\ IF found.raised THEN pc' = "failed" /\ outcome' = "Raised"
                ELSE IF /\ o.verbose
                        /\ \E k \in 1..Len(found.agents) :
                             ShowAgentVerbose(found.agents[k]).kind = "throw"
                  THEN pc' = "failed" /\ outcome' = "TypeError"
                ELSE IF Len(found.agents) = 0 /\ Len(commands) = 0
                  THEN pc' = "done" /\ outcome' = "NothingFound"
                ELSE pc' = "done" /\ outcome' = "Listed"

\* ---------------------------------------------------------- initial states
NameX == <<"x">>
NameUpperX == <<"X">>
Description == StrVal(<<"d">>)

ValidAgent(name) == AgentContent("ok", "ok", StrVal(name), Description)

\* Agent files of the runs that generate or synchronise: valid agents whose
\* logical names derive to the same command name, or no file.
BatchAgentContents == {NoFile, ValidAgent(NameX), ValidAgent(NameUpperX)}

NoCmd == CmdContent(FALSE, FALSE, "absent", <<>>)
HandAuthored == CmdContent(FALSE, FALSE, "ok", <<"h">>)
StaleGenerated == CmdContent(TRUE, TRUE, "ok", <<"g">>)

\* The project commands root may hold any listed file, the user root x.md.
CmdPaths == ({"project"} \X {CmdRelOrder[k] : k \in 1..Len(CmdRelOrder)})
            \cup {<<"user", <<"x">> \o MdExt>>}

\* What may sit at a command path before a run.
CmdChoices(path) ==
  IF path[2] = <<"x", "-", "2">> \o MdExt
    THEN {NoCmd, StaleGenerated}
    ELSE {NoCmd, HandAuthored, StaleGenerated}

Present(f) == [q \in {r \in DOMAIN f : f[r] # NoCmd} |-> f[q]]

InitAgents(contents) ==
  /\ agentDirs \in SUBSET Scopes
  /\ agentFiles \in [AgentPaths -> contents]
  /\ \A q \in AgentPaths : q[1] \notin agentDirs => agentFiles[q] = NoFile
  /\ agentFiles[<<"user", 1>>] \in BatchAgentContents \cup {AgentContent("ok", "broken", Absent, Absent)}

InitCommands ==
  /\ cmdRoot \in [Scopes -> {"absent", "dir", "file"}]
  /\ cmdRoot["user"] # "file"
  /\ \E f \in [CmdPaths -> {NoCmd, HandAuthored, StaleGenerated}] :
       /\ \A q \in CmdPaths : f[q] \in CmdChoices(q)
       /\ \A q \in CmdPaths : cmdRoot[q[1]] # "dir" => f[q] = NoCmd
       /\ cmdFiles = Present(f)

InitRunState ==
  /\ pc = "idle"
  /\ opts = [scope |-> "project", clean |-> FALSE, force |-> FALSE, dryRun |-> FALSE]
  /\ nameMap = EmptyMap
  /\ toCreate = <<>>
  /\ toUpdate = <<>>
  /\ toDelete = <<>>
  /\ idx = 0
  /\ generated = <<>>
  /\ skipped = <<>>
  /\ errors = <<>>
  /\ created = 0
  /\ updated = 0
  /\ deleted = 0
  /\ fs0 = cmdFiles
  /\ writes = <<>>
  /\ removed = {}
  /\ outcome = "None"
  /\ ret = Call("none", <<>>)
  /\ ioLog = {}
  /\ loggerVerbose = FALSE

InitRun == InitRunState /\ agents = <<>>

InitBatch ==
  /\ InitAgents(BatchAgentContents)
  /\ globFail = {}
  /\ InitCommands
  /\ InitRun

ScopeInputs == ScopeArgs \cup {"bogus"}

SyncOptions ==
  {[scope |-> sc, clean |-> cl, force |-> FALSE, dryRun |-> FALSE] :
     sc \in ScopeInputs, cl \in BOOLEAN}

SyncRun == \E o \in SyncOptions : SyncStart(o)

NextSync == SyncRun \/ SyncCreate \/ SyncUpdate \/ SyncDelete \/ SyncSummary

SpecSync == InitBatch /\ [][NextSync]_vars

GenerateOptions ==
  {[scope |-> sc, clean |-> FALSE, force |-> f, dryRun |-> d] :
     sc \in ScopeInputs, f \in BOOLEAN, d \in BOOLEAN}

GenRun == \E o \in GenerateOptions : GenStart(o)

NextGen == GenRun \/ GenStep \/ GenSummary

SpecGen == InitBatch /\ [][NextGen]_vars

\* ---------------------------------------------------- sync run twice
NextResync == SyncRun \/ SyncAgain \/ SyncCreate \/ SyncUpdate \/ SyncDelete \/ SyncSummary

SpecResync == InitBatch /\ [][NextResync]_vars

\* ------------------------------------------------- discovery on its own
\* Agent files of every shape parseAgentFile distinguishes.
DiscoverAgentContents ==
  { NoFile,
    ValidAgent(NameX),
    AgentContent("ok", "ok", StrVal(NameX), Absent),
    AgentContent("ok", "ok", Absent, Description),
    AgentContent("ok", "ok", StrVal(NameX), StrVal(<<>>)),
    AgentContent("ok", "ok", NumVal(<<"7">>), Description),
    AgentContent("ok", "ok", StrVal(NameX), NumVal(<<"0">>)),
    AgentContent("ok", "none", Absent, Absent),
    AgentContent("ok", "repairable", StrVal(NameX), Description),
    AgentContent("ok", "repairable", StrVal(NameX), Absent),
    AgentContent("ok", "broken", Absent, Absent),
    AgentContent("unreadable", "ok", StrVal(NameX), Description),
    AgentContent("dangling", "none", Absent, Absent) }

InitNoCommands ==
  /\ cmdRoot = [sc \in Scopes |-> "absent"]
  /\ cmdFiles = [q \in {} |-> NoCmd]

InitDiscover ==
  /\ InitAgents(DiscoverAgentContents)
  /\ globFail \in SUBSET agentDirs
  /\ InitNoCommands
  /\ InitRun

\* await FileDiscovery.discoverAgents(scope), as a caller observes it.
DiscoverAgentsCall(scope) ==
  /\ pc = "idle"
  /\ LET found == discoverAgents(scope)
     IN /\ agents' = found.agents
        /\ outcome' = IF found.raised THEN "Raised" ELSE "Returned"
        /\ ret' = Call("discoverAgents", found.agents)
  /\ ioLog' = ioLog \cup DiscoverAgentsIo(scope)
  /\ opts' = [opts EXCEPT !.scope = scope]
  /\ pc' = "done"
  /\ UNCHANGED <<envVars, cmdRoot, cmdFiles, nameMap, syncVars, idx, genVars, errors,
                 fs0, writes, removed>>

NextDiscover == \E scope \in ScopeArgs : DiscoverAgentsCall(scope)

SpecDiscover == InitDiscover /\ [][NextDiscover]_vars

\* ----------------------------------------------- the resolver on its own
ResolveNames == {NameX, NameUpperX, <<"x", "-", "2">>, <<"X", "-", "2">>}

BatchEntry(k, name) ==
  AgentEntry(<<"project", k>>, [name |-> StrVal(name), description |-> Description, tools |-> Absent],
             "project")

\* agents holds the list handed to the resolver.
InitResolve ==
  /\ agentDirs = {}
  /\ globFail = {}
  /\ agentFiles = [q \in AgentPaths |-> NoFile]
  /\ InitNoCommands
  /\ InitRunState
  /\ \E n \in 1..MaxBatch : \E names \in [1..n -> ResolveNames] :
       agents = [k \in 1..n |-> BatchEntry(k, names[k])]

ResolveCall ==
  /\ pc = "idle"
  /\ nameMap' = resolveNamingConflicts(AgentNames(agents))
  /\ ret' = Call("resolveNamingConflicts", resolveNamingConflicts(AgentNames(agents)))
  /\ pc' = "done"
  /\ outcome' = "Returned"
  /\ UNCHANGED <<envVars, cmdRoot, cmdFiles, opts, agents, syncVars, idx, genVars, errors,
                 fs0, writes, removed, ioLog>>

NextResolve == ResolveCall

SpecResolve == InitResolve /\ [][NextResolve]_vars

\* ----------------------------------------- the name derivation on its own
NameChars == {"x", "X", "-", "_"}

DeriveNames == UNION {[1..n -> NameChars] : n \in 1..MaxNameLen}

\* agents holds the one agent whose logical name is derived.
InitDerive ==
  /\ agentDirs = {}
  /\ globFail = {}
  /\ agentFiles = [q \in AgentPaths |-> NoFile]
  /\ InitNoCommands
  /\ InitRunState
  /\ \E name \in DeriveNames : agents = <<BatchEntry(1, name)>>

\* CommandGenerator.generateCommandName(agent.frontmatter.name)
GenerateCommandNameCall ==
  /\ pc = "idle"
  /\ ret' = Call("generateCommandName", generateCommandName(agents[1].name.v))
  /\ pc' = "derived"
  /\ outcome' = "Returned"
  /\ UNCHANGED <<envVars, cmdRoot, cmdFiles, opts, agents, nameMap, syncVars, idx, genVars,
                 errors, fs0, writes, removed, ioLog>>

\* The same call once more, and the call on the identifier it returned.
GenerateCommandNameAgain ==
  /\ pc = "derived"
  /\ ret' = Call("generateCommandName",
                 [first |-> ret.value,
                  repeated |-> generateCommandName(agents[1].name.v),
                  onResult |-> generateCommandName(ret.value)])
  /\ pc' = "done"
  /\ UNCHANGED <<envVars, cmdRoot, cmdFiles, opts, agents, nameMap, syncVars, idx, genVars,
                 errors, fs0, writes, removed, outcome, ioLog>>

NextDerive == GenerateCommandNameCall \/ GenerateCommandNameAgain

SpecDerive == InitDerive /\ [][NextDerive]_vars

\* ------------------------------------------------- the scans on their own
HumanOnly == CmdContent(TRUE, FALSE, "ok", <<"g">>)
MarkerOnly == CmdContent(FALSE, TRUE, "ok", <<"g">>)
NoHeader == CmdContent(FALSE, FALSE, "none", <<"h">>)
EmptyHeader == CmdContent(FALSE, FALSE, "empty", <<"h">>)
BrokenHeader == CmdContent(TRUE, TRUE, "broken", <<"g">>)

\* Command files of every shape parseCommandFile and isGeneratedFile distinguish.
ScanCmdContents ==
  { NoCmd, HandAuthored, StaleGenerated, HumanOnly, MarkerOnly, NoHeader, EmptyHeader,
    BrokenHeader, Unreadable(StaleGenerated), Dangling(StaleGenerated) }

ScanCmdChoices(path) ==
  IF path[2] = <<"x", "-", "2">> \o MdExt THEN {NoCmd}
  ELSE IF path[1] = "user" THEN {NoCmd, HandAuthored, StaleGenerated, BrokenHeader}
  ELSE ScanCmdContents

InitScan ==
  /\ InitAgents({NoFile, ValidAgent(NameX)})
  /\ globFail = {}
  /\ cmdRoot \in [Scopes -> {"absent", "dir", "file"}]
  /\ \E f \in [CmdPaths -> ScanCmdContents] :
       /\ \A q \in CmdPaths : f[q] \in ScanCmdChoices(q)
       /\ \A q \in CmdPaths : cmdRoot[q[1]] # "dir" => f[q] = NoCmd
       /\ cmdFiles = Present(f)
  /\ InitRun

\* await FileDiscovery.discoverCommands(scope)
DiscoverCommandsCall(scope) ==
  /\ pc = "idle"
  /\ ret' = Call("discoverCommands", discoverCommands(cmdFiles, cmdRoot, scope))
  /\ ioLog' = ioLog \cup DiscoverCommandsIo(cmdFiles, cmdRoot, scope)
  /\ outcome' = "Returned"
  /\ opts' = [opts EXCEPT !.scope = scope]
  /\ pc' = "done"
  /\ UNCHANGED <<envVars, cmdRoot, cmdFiles, agents, nameMap, syncVars, idx, genVars, errors,
                 fs0, writes, removed>>

\* PathUtils.getValidAgentsDirs(scope)
GetValidAgentsDirsCall(scope) ==
  /\ pc = "idle"
  /\ ret' = Call("getValidAgentsDirs", getValidAgentsDirs(scope))
  /\ ioLog' = ioLog \cup {"exists"}
  /\ outcome' = "Returned"
  /\ opts' = [opts EXCEPT !.scope = scope]
  /\ pc' = "done"
  /\ UNCHANGED <<envVars, cmdRoot, cmdFiles, agents, nameMap, syncVars, idx, genVars, errors,
                 fs0, writes, removed>>

\* FileDiscovery.isGeneratedFile(path)
IsGeneratedFileCall(path) ==
  /\ pc = "idle"
  /\ ret' = Call("isGeneratedFile", [path |-> path, result |-> isGeneratedFile(cmdFiles, path)])
  /\ ioLog' = ioLog \cup {"exists"} \cup (IF path \in DOMAIN cmdFiles THEN {"read"} ELSE {})
  /\ outcome' = "Returned"
  /\ pc' = "done"
  /\ UNCHANGED <<envVars, cmdRoot, cmdFiles, opts, agents, nameMap, syncVars, idx, genVars,
                 errors, fs0, writes, removed>>

NextScan ==
  \/ \E scope \in ScopeArgs : DiscoverAgentsCall(scope)
  \/ \E scope \in ScopeArgs : DiscoverCommandsCall(scope)
  \/ \E scope \in ScopeArgs : GetValidAgentsDirsCall(scope)
  \/ \E path \in CmdPaths : IsGeneratedFileCall(path)

SpecScan == InitScan /\ [][NextScan]_vars

\* ------------------------------------------------------- the four commands
CleanOptions == {[scope |-> sc, yes |-> y] : sc \in ScopeInputs, y \in BOOLEAN}

CleanRun == \E o \in CleanOptions : CleanStart(o)

CleanAnswer == \E answer \in BOOLEAN : CleanConfirm(answer)

ListOptions ==
  {[scope |-> sc, agentsOnly |-> a, commandsOnly |-> c, verbose |-> v] :
     sc \in ScopeInputs, a \in BOOLEAN, c \in BOOLEAN, v \in BOOLEAN}

ListRun == \E o \in ListOptions : ListStart(o)

\* Clean on command files of every shape; no agent is involved.
InitClean ==
  /\ agentDirs = {}
  /\ globFail = {}
  /\ agentFiles = [q \in AgentPaths |-> NoFile]
  /\ cmdRoot \in [Scopes -> {"absent", "dir", "file"}]
  /\ \E f \in [CmdPaths -> ScanCmdContents] :
       /\ \A q \in CmdPaths : f[q] \in ScanCmdChoices(q)
       /\ \A q \in CmdPaths : cmdRoot[q[1]] # "dir" => f[q] = NoCmd
       /\ cmdFiles = Present(f)
  /\ InitRun

NextClean == CleanRun \/ CleanAnswer \/ CleanStep \/ CleanSummary

SpecClean == InitClean /\ [][NextClean]_vars

\* One invocation of generate, sync, list or clean; a commands root holds
\* x.md and, in the project, a generated o.md at most.
InitCli ==
  /\ InitBatch
  /\ \A q \in DOMAIN cmdFiles :
       \/ q[2] = <<"x">> \o MdExt
       \/ q[2] = <<"o">> \o MdExt /\ cmdFiles[q] = StaleGenerated

NextCli ==
  \/ GenRun \/ GenStep \/ GenSummary
  \/ SyncRun \/ SyncCreate \/ SyncUpdate \/ SyncDelete \/ SyncSummary
  \/ ListRun
  \/ CleanRun \/ CleanAnswer \/ CleanStep \/ CleanSummary

SpecCli == InitCli /\ [][NextCli]_vars

\* ------------------------------------------------------ list on its own
ToolsScalar == StrVal(<<"R", ",", "W">>)
ToolsList == ListVal(<<"R", "G">>)

\* Valid agents without a tools field, with a scalar one and with a list.
ListAgentContents ==
  {NoFile, ValidAgent(NameX), WithTools(ValidAgent(NameX), ToolsScalar),
   WithTools(ValidAgent(NameX), ToolsList), WithTools(ValidAgent(NameX), ListVal(<<>>)),
   WithTools(ValidAgent(NameX), StrVal(<<>>))}

InitList ==
  /\ agentDirs \in SUBSET Scopes
  /\ globFail = {}
  /\ agentFiles \in [AgentPaths -> ListAgentContents]
  /\ \A q \in AgentPaths : q[1] \notin agentDirs => agentFiles[q] = NoFile
  /\ InitNoCommands
  /\ InitRun

NextList == ListRun

SpecList == InitList /\ [][NextList]_vars

\* ------------------------------------------------- the command line layer
\* The preAction hook of the program: Logger.setVerbose(program option).  The
\* option has no default; when absent its undefined value is falsy.
PreActionHook(programVerbose) ==
  /\ pc = "idle"
  /\ ret = Call("none", <<>>)
  /\ loggerVerbose' = programVerbose
  /\ ret' = Call("preAction", [programVerbose |-> programVerbose])
  /\ UNCHANGED <<agentDirs, globFail, agentFiles, cmdRoot, cmdFiles, pc, opts, agents,
                 nameMap, syncVars, idx, genVars, errors, fs0, writes, removed, outcome,
                 ioLog>>

\* The first statement of the action of generate, list and sync:
\* Logger.setVerbose(options.verbose), the subcommand's own option, whose
\* default is false.
SetVerboseCall(command, verbose) ==
  /\ pc = "idle"
  /\ ret.call = "preAction"
  /\ loggerVerbose' = verbose
  /\ ret' = Call("setVerbose", [command |-> command, verbose |-> verbose,
                                programVerbose |-> ret.value.programVerbose])
  /\ UNCHANGED <<agentDirs, globFail, agentFiles, cmdRoot, cmdFiles, pc, opts, agents,
                 nameMap, syncVars, idx, genVars, errors, fs0, writes, removed, outcome,
                 ioLog>>

\* The options of the subcommand together with the program's flag.
Parsed(command, o) ==
  Call("setVerbose", [command |-> command, verbose |-> o.verbose,
                      programVerbose |-> o.programVerbose])

CliGenerateOptions ==
  {[scope |-> sc, clean |-> FALSE, force |-> f, dryRun |-> d, verbose |-> v,
    programVerbose |-> pv] :
     sc \in {"project", "bogus"}, f \in BOOLEAN, d \in BOOLEAN, v \in BOOLEAN,
     pv \in BOOLEAN}

CliSyncOptions ==
  {[scope |-> sc, clean |-> cl, force |-> FALSE, dryRun |-> FALSE, verbose |-> v,
    programVerbose |-> pv] :
     sc \in {"project", "bogus"}, cl \in BOOLEAN, v \in BOOLEAN, pv \in BOOLEAN}

CliListOptions ==
  {[scope |-> sc, agentsOnly |-> FALSE, commandsOnly |-> FALSE, verbose |-> v,
    programVerbose |-> pv] :
     sc \in {"both", "bogus"}, v \in BOOLEAN, pv \in BOOLEAN}

Hook == \E pv \in BOOLEAN : PreActionHook(pv)

ActionStart ==
  \E command \in {"generate", "list", "sync"}, v \in BOOLEAN : SetVerboseCall(command, v)

GenerateAction == \E o \in CliGenerateOptions : ret = Parsed("generate", o) /\ GenStart(o)

SyncAction == \E o \in CliSyncOptions : ret = Parsed("sync", o) /\ SyncStart(o)

ListAction == \E o \in CliListOptions : ret = Parsed("list", o) /\ ListStart(o)

\* One agent file in the project root and at most a generated x.md or o.md
\* in the project commands root.
InitVerbose ==
  /\ InitCli
  /\ agentDirs = {"project"}
  /\ agentFiles[<<"project", 1>>] = ValidAgent(NameX)
  /\ \A q \in DOMAIN cmdFiles : q[1] = "project" /\ cmdFiles[q] = StaleGenerated
  /\ cmdRoot["user"] = "absent"

NextVerbose ==
  \/ Hook \/ ActionStart
  \/ GenerateAction \/ GenStep \/ GenSummary
  \/ SyncAction \/ SyncCreate \/ SyncUpdate \/ SyncDelete \/ SyncSummary
  \/ ListAction

SpecVerbose == InitVerbose /\ [][NextVerbose]_vars

\* ------------------------------------------- decoding and repair of a text
\* Characters of a header value: a letter, the two characters the repair pass
\* looks for, a blank, a backslash, the two quotes and an opening bracket.
ValueChars == {"a", ":", "#", " ", "\\", "\"", "'", "["}

\* The values a "name:" line can carry (the blanks after the colon are not
\* part of the value).
HeaderValues ==
  {v \in UNION {[1..n -> ValueChars] : n \in 0..MaxValueLen} : v = <<>> \/ v[1] # " "}

\* An agent file: a name line with the given value, a description, a body.
AgentText(v) ==
  Fence \o <<Nl>> \o KeyName \o <<":", " ">> \o v \o <<Nl>>
  \o KeyDescription \o <<":", " ", "d">> \o <<Nl>> \o Fence \o <<Nl>> \o <<"b">>

TextPath == <<"project", 1>>

InitRepair ==
  /\ agentDirs = {"project"}
  /\ globFail = {}
  /\ \E t \in {AgentText(v) : v \in HeaderValues} \cup {<<"b">>} :
       agentFiles = [q \in AgentPaths |-> IF q = TextPath THEN TextContent(t) ELSE NoFile]
  /\ InitNoCommands
  /\ InitRun

\* FileDiscovery.parseAgentFile(filePath, baseDir, 'project') on the file.
ParseAgentFileCall ==
  /\ pc = "idle"
  /\ LET d == DecodeText(agentFiles[TextPath].text)
         r == parseAgentText(TextPath, agentFiles[TextPath].text, "project")
     IN /\ ret' = Call("parseAgentFile", [result |-> r, decode |-> d])
        /\ outcome' = IF r.kind = "throw" THEN "Raised" ELSE "Returned"
  /\ ioLog' = ioLog \cup {"exists", "read"}
  /\ pc' = "done"
  /\ UNCHANGED <<envVars, cmdRoot, cmdFiles, opts, agents, nameMap, syncVars, idx, genVars,
                 errors, fs0, writes, removed>>

\* FileDiscovery.fixFrontmatter(content) on the text of the file.
FixFrontmatterCall ==
  /\ pc = "idle"
  /\ ret' = Call("fixFrontmatter", fixFrontmatterText(agentFiles[TextPath].text))
  /\ outcome' = "Returned"
  /\ pc' = "done"
  /\ UNCHANGED <<envVars, cmdRoot, cmdFiles, opts, agents, nameMap, syncVars, idx, genVars,
                 errors, fs0, writes, removed, ioLog>>

NextRepair == ParseAgentFileCall \/ FixFrontmatterCall

SpecRepair == InitRepair /\ [][NextRepair]_vars

\* ================================================================= claims
InScope(path, scope) == scope = "both" \/ path[1] = scope

HandAuthoredAtStart == {q \in DOMAIN fs0 : ~isGeneratedFile(fs0, q)}

RunEnded == pc \in {"done", "failed"}

\* C1: when a sync run has ended, every command file that was hand-authored
\* (isGeneratedFile false) when the run started still exists with the content
\* it had.
C1_HandAuthoredNeverTouched ==
  RunEnded => \A q \in HandAuthoredAtStart : q \in DOMAIN cmdFiles /\ cmdFiles[q] = fs0[q]

\* C2: in a sync run with the orphan-cleanup flag, once the analysis is done,
\* every generated command file of the scope whose name is not the resolved
\* name of a discovered agent is in toDelete, it is deleted (or its deletion
\* recorded as failed) when the run ends, and toDelete holds no hand-authored
\* file.
OrphansAtStart ==
  {q \in DOMAIN fs0 : /\ InScope(q, opts.scope)
                      /\ isGeneratedFile(fs0, q)
                      /\ ReplaceFirstMd(q[2]) \notin
                           MapValues(resolveNamingConflicts(AgentNames(agents)))}

C2_OrphansDeleted ==
  (pc \notin {"idle", "failed"} /\ opts.clean) =>
     /\ \A q \in OrphansAtStart : q \in Range(toDelete)
     /\ \A q \in Range(toDelete) : q \notin HandAuthoredAtStart
     /\ pc = "done" =>
          \A q \in OrphansAtStart :
             q \in removed \/ \E k \in 1..Len(errors) : errors[k].what = q

\* C3: every file written by a bulk run for an agent whose logical name is
\* its own went to the destination the batch name map gives that name, and no
\* two agents with distinct logical names wrote the same destination.
NameIsUnique(name) == Cardinality({k \in 1..Len(agents) : agents[k].name.v = name}) = 1

C3_DestinationsFollowNameMap ==
  /\ \A k \in 1..Len(writes) :
       NameIsUnique(writes[k][1]) =>
         writes[k][2] = <<TargetScope(opts.scope), nameMap[writes[k][1]] \o MdExt>>
  /\ \A j, k \in 1..Len(writes) :
       writes[j][1] # writes[k][1] => writes[j][2] # writes[k][2]

\* C4: a generate step without force whose destination already exists writes
\* nothing, leaves every command file as it was, and fails with the
\* already-exists conflict.
C4_ExistingTargetRefused ==
  [][(/\ pc = "gen_loop"
      /\ ~opts.force
      /\ DestOf(agents[idx], TargetScope(opts.scope)) \in DOMAIN cmdFiles)
     => (/\ cmdFiles' = cmdFiles
         /\ writes' = writes
         /\ generated' = generated
         /\ errors' = errors
         /\ Len(skipped') = Len(skipped) + 1
         /\ skipped'[Len(skipped')].err = "AlreadyExists")]_vars

C4_Witness ==
  /\ ~opts.force
  /\ \E k \in 1..Len(skipped) : skipped[k].err = "AlreadyExists"
  /\ \E q \in DOMAIN fs0 : cmdFiles[q] = fs0[q] /\ q = DestOf(agents[1], TargetScope(opts.scope))

\* C5: in the generate batch loop every agent recorded as skipped failed with
\* the already-exists conflict, and every agent recorded under errors failed
\* with something else.
C5_SkippedIffAlreadyExists ==
  /\ \A k \in 1..Len(skipped) : skipped[k].err = "AlreadyExists"
  /\ \A k \in 1..Len(errors) : errors[k].err # "AlreadyExists"

\* C6: the generate batch loop handles one agent per iteration whatever the
\* earlier iterations did, is never stuck, and at the summary generated +
\* skipped + errors equals the number of discovered agents.
GenRecorded == Len(generated) + Len(skipped) + Len(errors)

C6_GenerateLoopCompletes ==
  /\ pc = "gen_loop" =>
       /\ idx \in 1..Len(agents)
       /\ GenRecorded = idx - 1
       /\ ENABLED GenStep
  /\ pc = "gen_summary" => GenRecorded = Len(agents) /\ ENABLED GenSummary
  /\ (pc = "done" /\ outcome = "Summary") => GenRecorded = Len(agents)

C6_Witness ==
  /\ pc = "done" /\ outcome = "Summary"
  /\ Len(errors) > 0 /\ Len(skipped) > 0 /\ Len(generated) > 0

\* C7: in sync execution every create, update and delete item is attempted
\* whatever happened to the items before it, the run is never stuck, and at
\* the summary created + updated + deleted + errors equals
\* |toCreate| + |toUpdate| + |toDelete|.
SyncRecorded == created + updated + deleted + Len(errors)

C7_SyncLoopsComplete ==
  /\ pc = "sync_create" =>
       idx \in 1..Len(toCreate) /\ SyncRecorded = idx - 1 /\ ENABLED SyncCreate
  /\ pc = "sync_update" =>
       /\ idx \in 1..Len(toUpdate)
       /\ SyncRecorded = Len(toCreate) + idx - 1
       /\ ENABLED SyncUpdate
  /\ pc = "sync_delete" =>
       /\ idx \in 1..Len(toDelete)
       /\ SyncRecorded = Len(toCreate) + Len(toUpdate) + idx - 1
       /\ ENABLED SyncDelete
  /\ (pc = "sync_summary" \/ (pc = "done" /\ outcome = "Summary")) =>
       SyncRecorded = Len(toCreate) + Len(toUpdate) + Len(toDelete)

C7_Witness ==
  /\ pc = "done" /\ outcome = "Summary"
  /\ Len(errors) > 0 /\ errors[1].op = "create"
  /\ updated > 0 /\ deleted > 0

\* C8: the map returned by the resolver has one entry per distinct logical
\* name, no two entries share a final identifier, and among logical names
\* that derive to the same identifier the earliest keeps that identifier
\* unsuffixed while each later one gets it with a numeric suffix (stated for
\* lists whose logical names are pairwise distinct, where "earlier" is
\* unambiguous).
PairwiseDistinct(names) == \A j, k \in 1..Len(names) : j # k => names[j] # names[k]

IsSuffixedForm(final, base) ==
  /\ Len(final) > Len(base) + 1
  /\ SubSeq(final, 1, Len(base) + 1) = base \o <<"-">>
  /\ \A k \in (Len(base) + 2)..Len(final) : final[k] \in {Digit[d] : d \in 0..9}

EarliestOfItsIdentifier(names, k) ==
  \A j \in 1..(k - 1) : generateCommandName(names[j]) # generateCommandName(names[k])

SharesIdentifier(names, k) ==
  \E j \in 1..Len(names) :
     j # k /\ generateCommandName(names[j]) = generateCommandName(names[k])

C8_ResolverUniqueAndOrdered ==
  pc = "done" =>
    LET names == AgentNames(agents)
    IN /\ DOMAIN nameMap = Range(names)
       /\ \A a, b \in DOMAIN nameMap : a # b => nameMap[a] # nameMap[b]
       /\ PairwiseDistinct(names) =>
            \A k \in 1..Len(names) :
               SharesIdentifier(names, k) =>
                 IF EarliestOfItsIdentifier(names, k)
                   THEN nameMap[names[k]] = generateCommandName(names[k])
                   ELSE IsSuffixedForm(nameMap[names[k]], generateCommandName(names[k]))

\* C9: every entry discoverAgents returns has a non-empty string name and a
\* non-empty string description; a file with no header, or whose header lacks
\* either field, yields no entry, and the call does not raise.
LacksMandatoryField(content) ==
  \/ content.yaml = "none"
  \/ content.name.t = "absent"
  \/ content.description.t = "absent"

C9_EntriesHaveMandatoryStrings ==
  pc = "done" =>
    /\ outcome = "Returned"
    /\ \A k \in 1..Len(agents) :
         IsNonEmptyString(agents[k].name) /\ IsNonEmptyString(agents[k].description)
    /\ \A q \in AgentPaths :
         LacksMandatoryField(agentFiles[q]) => \A k \in 1..Len(agents) : agents[k].path # q

\* C10: discoverAgents never raises, and returns every valid file of every
\* root of the scope that exists and can be enumerated, whatever the other
\* files and the other root do.
WellFormedAgent(content) ==
  /\ content.io = "ok"
  /\ content.yaml \in {"ok", "repairable"}
  /\ IsNonEmptyString(content.name)
  /\ IsNonEmptyString(content.description)

ScannableRoot(root) == InScope(<<root>>, opts.scope) /\ root \in agentDirs /\ root \notin globFail

C10_DiscoverNeverRaises ==
  pc = "done" =>
    /\ outcome = "Returned"
    /\ \A q \in AgentPaths :
         (ScannableRoot(q[1]) /\ WellFormedAgent(agentFiles[q])) =>
            \E k \in 1..Len(agents) : agents[k].path = q

C10_Witness ==
  /\ pc = "done" /\ outcome = "Returned" /\ opts.scope = "both"
  /\ agentFiles[<<"project", 1>>].yaml = "broken"
  /\ WellFormedAgent(agentFiles[<<"project", 2>>])
  /\ "user" \in globFail
  /\ Len(agents) = 1 /\ agents[1].path = <<"project", 2>>

\* C11: every entry discoverAgents and discoverCommands return is tagged with
\* the scope of the root its path lies under and that root is one the scope
\* argument selects; the files returned are the files of the selected roots;
\* and 'both' returns the project entries followed by the user entries.
EntryPaths(list) == {list[k].path : k \in 1..Len(list)}

ParsesAsCommand(content) == content.io = "ok" /\ content.yaml # "broken"

C11_EntriesTaggedByRoot ==
  /\ ret.call = "discoverAgents" =>
       /\ \A k \in 1..Len(ret.value) :
            /\ ret.value[k].scope = ret.value[k].path[1]
            /\ InScope(ret.value[k].path, opts.scope)
       /\ EntryPaths(ret.value) =
            {q \in AgentPaths : agentFiles[q].io # "absent" /\ InScope(q, opts.scope)}
       /\ opts.scope = "both" =>
            ret.value = discoverAgents("project").agents \o discoverAgents("user").agents
  /\ ret.call = "discoverCommands" =>
       /\ \A k \in 1..Len(ret.value) :
            /\ ret.value[k].scope = ret.value[k].path[1]
            /\ InScope(ret.value[k].path, opts.scope)
       /\ EntryPaths(ret.value) =
            {q \in DOMAIN cmdFiles : ParsesAsCommand(cmdFiles[q]) /\ InScope(q, opts.scope)}
       /\ opts.scope = "both" =>
            ret.value = discoverCommands(cmdFiles, cmdRoot, "project")
                        \o discoverCommands(cmdFiles, cmdRoot, "user")

C11_Witness ==
  /\ ret.call = "discoverAgents" /\ opts.scope = "both"
  /\ Len(ret.value) = 2
  /\ ret.value[1].scope = "project" /\ ret.value[2].scope = "user"
  /\ ret.value[2].path[1] = "user"

\* C12: getValidAgentsDirs returns the roots the scope selects that exist,
\* project before user, each tagged with its own scope; a missing root is
\* left out and the result is empty when none exists.
SelectedRoots(scope) ==
  SelectSeq(<<"project", "user">>, LAMBDA sc : scope = "both" \/ scope = sc)

BulkRun == ret.call \in {"generate", "sync"} /\ opts.scope \in ScopeArgs

C13_NoDirsDistinctFromNoAgents ==
  BulkRun =>
    /\ Len(getValidAgentsDirs(opts.scope)) = 0 =>
         outcome = "NoAgentDirs" /\ "glob" \notin ioLog /\ "read" \notin ioLog
    /\ outcome = "NoAgents" => Len(getValidAgentsDirs(opts.scope)) > 0

\* C14: a generate, sync, list or clean run given a scope outside
\* {project, user, both} fails with the usage error having made no file system
\* call of any kind, and the command files are as they were.
CliRun == ret.call \in {"generate", "sync", "list", "clean"}

C14_InvalidScopeFailsBeforeIo ==
  (CliRun /\ opts.scope \notin {"project", "user", "both"}) =>
    /\ pc = "failed"
    /\ outcome = "InvalidScope"
    /\ ioLog = {}
    /\ cmdFiles = fs0
    /\ writes = <<>> /\ removed = {}
    /\ agents = <<>> /\ ret.value = <<>>

C14_Witness ==
  /\ ret.call = "clean" /\ opts.scope = "bogus" /\ opts.yes
  /\ pc = "failed" /\ outcome = "InvalidScope"
  /\ \E q \in DOMAIN cmdFiles : isGeneratedFile(cmdFiles, q)

\* C16: every file a generate or sync run wrote, and that is still in place,
\* holds both signature tokens, and isGeneratedFile answers true for it.
C16_WrittenFilesCarryBothTokens ==
  \A k \in 1..Len(writes) :
    writes[k][2] \in DOMAIN cmdFiles =>
      /\ cmdFiles[writes[k][2]].human
      /\ cmdFiles[writes[k][2]].marker
      /\ isGeneratedFile(cmdFiles, writes[k][2])

C16_Witness ==
  /\ ret.call = "generate" /\ pc = "done"
  /\ \E k \in 1..Len(writes) :
       /\ writes[k][2] \notin DOMAIN fs0
       /\ cmdFiles[writes[k][2]] = Render(agents[1])
       /\ isGeneratedFile(cmdFiles, writes[k][2])

\* C15: isGeneratedFile answers true exactly when the file exists, can be read
\* and its text holds at least one of the two signature tokens; for a text
\* with neither token, a path with no file and an unreadable file it answers
\* false and does not raise.
C15_IsGeneratedIffMarker ==
  ret.call = "isGeneratedFile" =>
    LET q == ret.value.path
    IN /\ outcome = "Returned"
       /\ ret.value.result <=>
            /\ q \in DOMAIN cmdFiles
            /\ cmdFiles[q].io = "ok"
            /\ cmdFiles[q].human \/ cmdFiles[q].marker

C15_Witness ==
  /\ ret.call = "isGeneratedFile"
  /\ ret.value.result
  /\ cmdFiles[ret.value.path] = MarkerOnly

\* C17: in parseAgentFile the repair pass runs exactly when the first decoding
\* failed, decoding is then attempted once more and no further; a first
\* success is returned as decoded, unrepaired; when the retry fails too the
\* error that leaves parseAgentFile is the error of the first attempt.
C17_RepairOnlyAfterFailure ==
  ret.call = "parseAgentFile" =>
    LET text == agentFiles[TextPath].text
        first == matterText(text)
        retry == matterText(fixFrontmatterText(text))
        d == ret.value.decode
    IN /\ d.repaired <=> first.kind = "throw"
       /\ d.calls = IF first.kind = "throw" THEN 2 ELSE 1
       /\ first.kind # "throw" => d.value = first.value /\ d.kind = first.kind
       /\ (first.kind = "throw" /\ retry.kind # "throw") => d.value = retry.value
       /\ (first.kind = "throw" /\ retry.kind = "throw") =>
            /\ ret.value.result.kind = "throw"
            /\ ret.value.result.err = first.err

C17_Witness ==
  /\ ret.call = "parseAgentFile"
  /\ ret.value.result.kind = "throw"
  /\ matterText(agentFiles[TextPath].text).kind = "throw"
  /\ matterText(fixFrontmatterText(agentFiles[TextPath].text)).kind = "throw"
  /\ matterText(fixFrontmatterText(agentFiles[TextPath].text)).err
       # matterText(agentFiles[TextPath].text).err

\* C18: for a name line whose unquoted scalar value holds a colon or a '#'
\* and whose file fails decoding, the repaired text decodes, and the name it
\* decodes to is the original value when that value holds no quote character;
\* a line whose value is empty, starts with a quote, or starts with '[' or '{'
\* is left as it is.
HasQuote(v) == Includes(v, "\"") \/ Includes(v, "'")

UnquotedScalar(v) == v # <<>> /\ v[1] \notin {"\"", "'", "[", "{"}

C18_RepairRoundTrip ==
  ret.call = "fixFrontmatter" =>
    \A v \in HeaderValues :
      agentFiles[TextPath].text = AgentText(v) =>
        /\ ( /\ UnquotedScalar(v)
             /\ Includes(v, ":") \/ Includes(v, "#")
             /\ matterText(AgentText(v)).kind = "throw" ) =>
               /\ matterText(ret.value).kind = "ok"
               /\ ~HasQuote(v) => matterText(ret.value).value.name = StrVal(v)
        /\ ~UnquotedScalar(v) => ret.value = AgentText(v)

\* C19: a clean run deletes only files that discoverCommands returned and
\* that isGeneratedFile answered true for, and these are its candidates; a
\* hand-authored file is still there unchanged; nothing is deleted before the
\* confirmation or when it is refused; each candidate is attempted whatever
\* happened to the ones before it, and at the summary deleted + errors is the
\* number of candidates.
CleanCandidates == {q \in EntryPaths(ret.value) : isGeneratedFile(fs0, q)}

C19_CleanDeletesOnlyGenerated ==
  (ret.call = "clean" /\ pc # "failed") =>
    /\ Range(toDelete) = CleanCandidates
    /\ removed \subseteq CleanCandidates
    /\ DOMAIN cmdFiles = DOMAIN fs0 \ removed
    /\ \A q \in HandAuthoredAtStart : q \in DOMAIN cmdFiles /\ cmdFiles[q] = fs0[q]
    /\ (pc = "clean_confirm" \/ outcome = "Cancelled") =>
         cmdFiles = fs0 /\ deleted = 0 /\ "unlink" \notin ioLog
    /\ pc = "clean_loop" =>
         /\ idx \in 1..Len(toDelete)
         /\ deleted + Len(errors) = idx - 1
         /\ ENABLED CleanStep
    /\ pc = "clean_loop" /\ ~opts.yes => outcome = "Cleaning"
    /\ (pc = "clean_summary" \/ outcome = "Summary") =>
         deleted + Len(errors) = Len(toDelete)

C19_Witness ==
  /\ ret.call = "clean" /\ pc = "done" /\ outcome = "Summary" /\ ~opts.yes
  /\ Len(toDelete) = 2
  /\ Len(errors) = 1 /\ errors[1].what = toDelete[1]
  /\ removed = {toDelete[2]}
  /\ \E q \in HandAuthoredAtStart : cmdFiles[q] = HandAuthored

\* C20: discoverCommands returns, in listing order, every file of the valid
\* commands roots of the scope whose parse succeeds, whatever its header holds
\* (fields, no field, no header block); a file whose parse throws is left out
\* and the files listed after it are still returned.
ListedCommands(scope) ==
  LET roots == SelectSeq(SelectedRoots(scope), LAMBDA sc : cmdRoot[sc] # "absent")
      under(sc) == SelectSeq(CmdRelOrder, LAMBDA rel : <<sc, rel>> \in DOMAIN cmdFiles)
      paths(sc) == [k \in 1..Len(under(sc)) |-> <<sc, under(sc)[k]>>]
  IN IF Len(roots) = 0 THEN <<>>
     ELSE IF Len(roots) = 1 THEN paths(roots[1])
     ELSE paths(roots[1]) \o paths(roots[2])

C20_CommandsNotFiltered ==
  ret.call = "discoverCommands" =>
    LET expected == SelectSeq(ListedCommands(opts.scope),
                              LAMBDA q : ParsesAsCommand(cmdFiles[q]))
    IN /\ outcome = "Returned"
       /\ Len(ret.value) = Len(expected)
       /\ \A k \in 1..Len(expected) :
            /\ ret.value[k].path = expected[k]
            /\ ret.value[k].frontmatter = cmdFiles[expected[k]].yaml

C20_Witness ==
  /\ ret.call = "discoverCommands" /\ opts.scope = "project"
  /\ <<"project", CmdRelOrder[1]>> \in DOMAIN cmdFiles
  /\ cmdFiles[<<"project", CmdRelOrder[1]>>].yaml = "broken"
  /\ Len(ret.value) = 1
  /\ ret.value[1].path = <<"project", CmdRelOrder[2]>>
  /\ ret.value[1].frontmatter \in {"none", "empty"}

\* C21: a generate run with the dry-run option leaves the file system as it
\* was: no step of the run changes a command file or a commands root, and the
\* command files stay those the run started with, whatever the scope, the
\* force option and the agents.
C21_DryRunWritesNothing ==
  [][(opts'.dryRun /\ ret'.call = "generate")
     => (/\ cmdFiles' = cmdFiles
         /\ cmdRoot' = cmdRoot
         /\ cmdFiles' = fs0'
         /\ writes' = <<>>
         /\ ioLog' \cap {"write", "unlink"} = {})]_vars

\* A forced dry run over two agents whose destination exists has ended.
C21_Witness ==
  /\ pc = "done"
  /\ outcome = "DryRun"
  /\ ret.call = "generate"
  /\ opts.force
  /\ opts.scope = "both"
  /\ Len(agents) = 2
  /\ DestOf(agents[1], "project") \in DOMAIN cmdFiles
  /\ cmdRoot["user"] = "absent"

AnalysisDone == ret.call = "sync" /\ pc \notin {"idle", "failed"} /\ Len(agents) > 0

\* Generated command files of the run's scope, as the run found them.
GeneratedAtStart ==
  {q \in DOMAIN fs0 : InScope(q, opts.scope) /\ isGeneratedFile(fs0, q)}

UpdateAgents == {toUpdate[k].agent : k \in 1..Len(toUpdate)}

\* C23: once sync has classified, every discovered agent is in exactly one of
\* toCreate and toUpdate, the two lists hold nothing else, and an agent is in
\* toUpdate exactly when a generated command file of the scope is named as
\* the name map names the agent.
C23_ClassificationPartitions ==
  AnalysisDone =>
     /\ Len(toCreate) + Len(toUpdate) = Len(agents)
     /\ Range(toCreate) \cup UpdateAgents = Range(agents)
     /\ Range(toCreate) \cap UpdateAgents = {}
     /\ \A a \in Range(agents) :
          a \in UpdateAgents <=>
            \E q \in GeneratedAtStart : ReplaceFirstMd(q[2]) = nameMap[a.name.v]

\* Of two agents whose names collide, the one with the suffixed name is
\* created and the other updated.
C23_Witness ==
  /\ AnalysisDone
  /\ Len(toCreate) = 1
  /\ Len(toUpdate) = 1
  /\ nameMap[toCreate[1].name.v] = <<"x", "-", "2">>
  /\ <<"project", <<"x">> \o MdExt>> \in GeneratedAtStart

\* C24: every update step of sync that writes a file writes the matched
\* existing command file of its (agent, command) pair: same root, same name.
C24_UpdateRewritesMatchedFile ==
  [][(pc = "sync_update" /\ Len(writes') = Len(writes) + 1)
     => writes'[Len(writes')][2] = toUpdate[idx].command.path]_vars

\* Items of one loop attempted so far: those counted and those whose failure
\* was recorded.
Attempted(op, count) ==
  count + Len(SelectSeq(errors, LAMBDA e : e.op = op))

\* C25: in a sync run no update is attempted before every create has been,
\* no deletion before every update has been, and no create or update fails
\* with the already-exists conflict.
C25_SyncOrdered ==
  ret.call = "sync" =>
     /\ Attempted("update", updated) > 0 => Attempted("create", created) = Len(toCreate)
     /\ pc = "sync_update" => Attempted("create", created) = Len(toCreate)
     /\ Attempted("delete", deleted) > 0 => Attempted("update", updated) = Len(toUpdate)
     /\ pc = "sync_delete" =>
          /\ Attempted("create", created) = Len(toCreate)
          /\ Attempted("update", updated) = Len(toUpdate)
     /\ \A k \in 1..Len(errors) : errors[k].err # "AlreadyExists"

\* A run that created over an existing file, updated and deleted has reached
\* its summary.
C25_Witness ==
  /\ ret.call = "sync"
  /\ pc = "sync_summary"
  /\ created = 1
  /\ updated = 1
  /\ deleted = 1
  /\ DestOf(toCreate[1], TargetScope(opts.scope)) \in DOMAIN fs0

\* C26: a sync run without the orphan-cleanup flag plans and performs no
\* deletion: toDelete is empty, nothing is unlinked, and every command file
\* that existed when the run started still exists.
C26_NoCleanNoDeletion ==
  (ret.call = "sync" /\ ~opts.clean) =>
     /\ toDelete = <<>>
     /\ removed = {}
     /\ deleted = 0
     /\ "unlink" \notin ioLog
     /\ DOMAIN fs0 \subseteq DOMAIN cmdFiles

\* A run without the flag has ended with an orphaned generated command in its
\* scope and a command created.
C26_Witness ==
  /\ ret.call = "sync"
  /\ ~opts.clean
  /\ pc = "done"
  /\ outcome = "Summary"
  /\ created > 0
  /\ OrphansAtStart # {}

WrittenPaths == {writes[k][2] : k \in 1..Len(writes)}

\* C28: in a sync run with the orphan-cleanup flag, no path the run unlinked
\* is a path one of its creates or updates wrote.
C28_DeletedDisjointFromWritten ==
  (ret.call = "sync" /\ opts.clean) => removed \cap WrittenPaths = {}

SecondRun == ret.call = "sync" /\ ret.value # <<>>

\* C27: when a sync run that recorded no error is followed by the same sync
\* command over the same agent files, the second run's analysis puts no agent
\* in toCreate and, with the orphan-cleanup flag, no command in toDelete.
C27_SyncConverges ==
  (SecondRun /\ pc \notin {"idle", "failed"}) =>
     /\ toCreate = <<>>
     /\ opts.clean => toDelete = <<>>

\* C29: list --verbose over discovered agents of which one has a tools field,
\* a single string or a list, does not fail: it ends with its summary.
C29_VerboseListHandlesBothForms ==
  (/\ ret.call = "list"
   /\ opts.scope \in ScopeArgs
   /\ opts.verbose
   /\ \E k \in 1..Len(agents) : agents[k].tools.t \in {"str", "list"})
  => (pc = "done" /\ outcome = "Listed")

\* C30: when the program-level verbose flag is given, the preAction hook
\* switches Logger.verbose on and it is on in every state of the action of
\* generate, list or sync that follows, so that Logger.debug prints, whether
\* or not the subcommand's own verbose option was given.
C30_ProgramVerboseLasts ==
  /\ (ret.call = "preAction" /\ ret.value.programVerbose) => loggerVerbose
  /\ (ret.call = "setVerbose" /\ ret.value.programVerbose) => loggerVerbose
  /\ (ret.call \in {"generate", "list", "sync"} /\ opts.programVerbose) => loggerVerbose

====
